---------------------------- MODULE Spec2Model ----------------------------
(***************************************************************************)
(* A model of degarashi/pose_make_db: the schema-validated SQLite store    *)
(* (common/db.py, common/table_check.py, common/sql.py), the passes that   *)
(* run inside it (torso, spine, thigh and crus direction, thigh and crus   *)
(* flexion, tagging, file removal) and the orchestrator (make_db.py).      *)
(*                                                                         *)
(* Numbers.  Coordinates of landmarks are small integers.  A float that    *)
(* the code obtains by normalising is kept in fixed point, in units of     *)
(* 1/SCALE; presence values are kept in tenths.  NaN is the value numpy    *)
(* produces when a vector is divided by a zero norm.                       *)
(***************************************************************************)
EXTENDS Integers, Sequences, FiniteSets, TLC

\* ------------------------------------------------------------------ bounds
MaxPose == 1          \* frames (Pose rows) of the store the passes run on
MaxWorkers == 2       \* largest --max_workers given to the orchestrator
MaxLen == 3           \* longest vector handed to the codec

\* --------------------------------------------------------- program constants
SCALE == 10 * 100     \* fixed-point unit of a normalised component
NaN == 0 - 999999     \* numpy's nan (x / 0.0), outside every value's range
NULL == 0 - 888888    \* SQL NULL, outside every value's range
TH_PRESENCE == 9      \* torsodir_db.py: TH_PRESENCE = 0.9, in tenths
BLAZEPOSE_LANDMARK_LEN == 33
BPL_left_shoulder == 11
BPL_right_shoulder == 12
BPL_left_hip == 23
BPL_right_hip == 24
BPL_left_knee == 25
BPL_right_knee == 26
BPL_left_ankle == 27
BPL_right_ankle == 28
CLm_left_shoulder == 5
CLm_right_ear == 4
CLm_left_elbow == 7
CLm_right_elbow == 8
CLm_left_knee == 13
CLm_right_knee == 14
CLm_left_ankle == 15
CLm_right_ankle == 16
CLm_right_shoulder == 6
CLm_left_hip == 11
CLm_right_hip == 12
COCO_LANDMARK_LEN == 17

\* ------------------------------------------------------------ vector algebra
\* F applied to the value of x, x being evaluated once (a local variable
\* assigned once and read by the code that follows)
Bind(x, F(_)) == CHOOSE y \in {F(v) : v \in {x}} : TRUE

Vec(x, y, z) == <<x, y, z>>
Sub(a, b) == <<a[1] - b[1], a[2] - b[2], a[3] - b[3]>>
Add(a, b) == <<a[1] + b[1], a[2] + b[2], a[3] + b[3]>>
Dot(a, b) == a[1] * b[1] + a[2] * b[2] + a[3] * b[3]
Cross(a, b) ==
    <<a[2] * b[3] - a[3] * b[2], a[3] * b[1] - a[1] * b[3], a[1] * b[2] - a[2] * b[1]>>
IsNaNVec(v) == \E i \in 1..3 : v[i] = NaN

\* floor(sqrt(n)) for 0 <= n < SqrtStep^2 * SqrtCoarse^2: the hundred it lies in,
\* then the root within that hundred
SqrtStep == 10 * 10
SqrtCoarse == 463 + 0
ISqrtIn(m, h) ==
    CHOOSE r \in (SqrtStep * h)..(SqrtStep * h + SqrtStep - 1) :
        r * r <= m /\ (r + 1) * (r + 1) > m
ISqrtOf(m) ==
    CHOOSE r \in {ISqrtIn(m, h) : h \in {g \in 0..(SqrtCoarse - 1) :
                      (SqrtStep * g) * (SqrtStep * g) <= m
                      /\ (SqrtStep * (g + 1)) * (SqrtStep * (g + 1)) > m}} : TRUE
ISqrt(n) == Bind(n, ISqrtOf)

\* a / b rounded to the nearest integer (b > 0)
RoundDiv(a, b) == (2 * a + b) \div (2 * b)

\* v / |v| in units of 1/SCALE, for a vector of small integers;
\* a zero vector gives nan components, as numpy's and Python's float division
\* by a zero norm do (numpy) or as the callers guard (math.sqrt == 0).
NormalizeBy(w, k) ==
    Bind(ISqrt(Dot(w, w) * k * k), LAMBDA r :
        IF r = 0 THEN <<NaN, NaN, NaN>>
        ELSE [i \in 1..3 |-> RoundDiv(w[i] * SCALE * k, r)])
NormalizeInt(v) ==
    Bind(v, LAMBDA w :
        NormalizeBy(w, IF Dot(w, w) < 2 * SCALE THEN SCALE ELSE SCALE \div 10))

\* v / |v| for a vector already in units of 1/SCALE
NormalizeFix(v) ==
    Bind(v, LAMBDA w :
        IF IsNaNVec(w) THEN <<NaN, NaN, NaN>>
        ELSE Bind(ISqrt(Dot(w, w)), LAMBDA r :
                IF r = 0 THEN <<NaN, NaN, NaN>>
                ELSE [i \in 1..3 |-> RoundDiv(w[i] * SCALE, r)]))

\* ------------------------------------------------------------------ the store
\* The database file: whether it exists, and for every table whether it exists,
\* whether its column set is the declared one, and its rows.
VARIABLES
    disk,      \* the committed content of the database file
    work,      \* the content as the open connection sees it (pending writes included)
    pc,        \* "idle" | "body" | "exit": where the running stage's `with` block is
    cur,       \* the store class and reset flag of the running stage
    exc,       \* the exception in flight when __exit__ is entered ("none" if none)
    txn,       \* the connection has an open transaction
    fk,        \* PRAGMA foreign_keys is ON for the connection
    pre,       \* the committed content when the running (or last) stage was opened
    last,      \* what the last finished stage did
    batch,     \* the rows the last pass body had computed in memory (dir_data)
    done,      \* the store classes that have closed a run with a commit
    orch,      \* the orchestrator: its arguments, the stages started, its exit code
    codec,     \* a vector in memory, its serialized bytes and what they decode to
    pool,      \* the ingestion's worker pool: its tasks and who wrote the store last
    conv       \* a call of posix_to_windows or of register_imagefile: its arguments,
               \* its environment, its result

vars == <<disk, work, pc, cur, exc, txn, fk, pre, last, batch, done, orch, codec, pool, conv>>

NoArgs == [model_exists |-> TRUE, init_db |-> FALSE, confirm |-> FALSE, db_exists |-> TRUE,
           max_workers |-> 1]
NoOrch == [args |-> NoArgs, started |-> <<>>, results |-> <<>>, code |-> "none"]
NoConv == [at |-> "none"]
NoCodec == [at |-> "none", v |-> <<>>, bytes |-> <<>>, out |-> <<>>]
NoPool == [at |-> "none", actor |-> "none", max_workers |-> 0, todo |-> <<>>,
           submitted |-> <<>>, queue |-> <<>>, running |-> {}, completed |-> <<>>,
           result |-> <<>>, taken |-> 0]

PoseTables == <<"File", "Pose", "Landmark", "LandmarkName", "PoseRect">>
TableNames ==
    {"File", "Pose", "Landmark", "LandmarkName", "PoseRect", "Reliability",
     "MasseTorsoDir", "MasseTorsoVec", "MasseSpineDir", "MasseSpineVec",
     "MasseThighDir", "MasseThighVec", "MasseCrusDir", "MasseCrusVec",
     "ThighFlexion", "CrusFlexion", "TagInfo", "Tags"}

\* the tables whose rows carry a frame id and are derived from the frame
DerivedTables ==
    {"Reliability", "MasseTorsoDir", "MasseTorsoVec", "MasseSpineDir", "MasseSpineVec",
     "MasseThighDir", "MasseThighVec", "MasseCrusDir", "MasseCrusVec",
     "ThighFlexion", "CrusFlexion", "Tags"}

Classes ==
    {"PoseDB", "ReliabilityDB", "reliabilitydb.ReliabilityDB", "MasseTorsoDB", "SpineDirDB", "ThighDirDB", "CrusDirDB",
     "ThighFlexionDB", "CrusFlexionDB", "TagsDB"}

\* table_def of each store class, in the order of its dict
PoseDB_Table_Def == PoseTables
Reliability_Table_Def == <<"Reliability">>
Torso_Table_Def == <<"MasseTorsoDir", "MasseTorsoVec">>
Spine_Table_Def == <<"MasseSpineDir", "MasseSpineVec">>
Thigh_Table_Def == <<"MasseThighDir", "MasseThighVec">>
\* desc/crus_dir.py: after desc/thigh_dir.py, a direction table and its vec0 mirror
Crus_Table_Def == <<"MasseCrusDir", "MasseCrusVec">>
ThighFlexion_Table_Def == <<"ThighFlexion">>
CrusFlexion_Table_Def == <<"CrusFlexion">>
Tags_Table_Def == <<"TagInfo", "Tags">>

Table_Def(cls) ==
    CASE cls = "PoseDB" -> PoseDB_Table_Def
      [] cls = "ReliabilityDB" -> Reliability_Table_Def
      [] cls = "reliabilitydb.ReliabilityDB" -> Reliability_Table_Def
      [] cls = "MasseTorsoDB" -> Torso_Table_Def
      [] cls = "SpineDirDB" -> Spine_Table_Def
      [] cls = "ThighDirDB" -> Thigh_Table_Def
      [] cls = "CrusDirDB" -> Crus_Table_Def
      [] cls = "ThighFlexionDB" -> ThighFlexion_Table_Def
      [] cls = "CrusFlexionDB" -> CrusFlexion_Table_Def
      [] cls = "TagsDB" -> Tags_Table_Def

DeclaredTables(cls) == {Table_Def(cls)[i] : i \in 1..Len(Table_Def(cls))}

\* a table_def entry of None (the vec0 tables): only existence is checked
ColumnTypesIsNone(t) ==
    t \in {"MasseTorsoVec", "MasseSpineVec", "MasseThighVec", "MasseCrusVec"}

NoTable == [exists |-> FALSE, cols |-> TRUE, rows |-> {}]
EmptyTable == [exists |-> TRUE, cols |-> TRUE, rows |-> {}]

\* `column_types[name] is not type(val)` for some value of some row: in this
\* model the only values whose Python type differs from the declared one are
\* the NULLs the flexion passes can store in their nullable REAL columns.
RowTypeMismatch(t, row) ==
    CASE t = "CrusFlexion" -> row.angleRad = NULL
      [] t = "ThighFlexion" -> row.angleRad = NULL \/ row.dotBody = NULL \/ row.dotSpine = NULL
      [] OTHER -> FALSE

\* check_validity on the tables tdef[i..]: the first finding, in dict order
RECURSIVE CheckFrom(_, _, _)
CheckFrom(store, tdef, i) ==
    IF i > Len(tdef) THEN "ok"
    ELSE LET t == store.tab[tdef[i]]
         IN  IF ~t.exists THEN "VCFTableNotFound"
             ELSE IF ColumnTypesIsNone(tdef[i]) THEN CheckFrom(store, tdef, i + 1)
             ELSE IF ~t.cols THEN "VCFColumnMismatch"
             ELSE IF \E r \in t.rows : RowTypeMismatch(tdef[i], r) THEN "VCFInvalidRow"
             ELSE CheckFrom(store, tdef, i + 1)

\* check_validity looking for a missing table in the whole table_def first
check_validity_MissingFirst(store, tdef) ==
    IF \E i \in 1..Len(tdef) : ~store.tab[tdef[i]].exists THEN "VCFTableNotFound"
    ELSE CheckFrom(store, tdef, 1)

check_validity(store, tdef) == CheckFrom(store, tdef, 1)

\* re-initialisation that creates the missing tables only
InitTables_MissingOnly(store, cls) ==
    [store EXCEPT !.tab = [t \in TableNames |->
        IF t \in DeclaredTables(cls) /\ ~store.tab[t].exists THEN EmptyTable
        ELSE store.tab[t]]]

\* sql.DropTableIfExists(cur, tdef.keys()) followed by sql.Execute(cur, init_query):
\* every declared table is dropped if present and created empty
InitTables(store, cls) ==
    [store EXCEPT !.tab = [t \in TableNames |->
        IF t \in DeclaredTables(cls) THEN EmptyTable ELSE store.tab[t]]]

\* post_table_initialized: PoseDB inserts one LandmarkName row per COCO landmark,
\* the other classes insert nothing
SeedRows == {[id |-> i] : i \in 0..(COCO_LANDMARK_LEN - 1)}
post_table_initialized(store, cls) ==
    IF cls = "PoseDB"
    THEN [store EXCEPT !.tab["LandmarkName"].rows = @ \cup SeedRows]
    ELSE store
HasSeed(cls) == cls = "PoseDB"

\* ------------------------------------------------------------ vector codec
\* struct.pack("%sf"): each element becomes a 4-byte little-endian single.  A
\* single keeps less than a double: here a double is an integer number of
\* 1/SCALE and a single keeps it to the nearest multiple of F32Quantum, stored
\* as three magnitude bytes and a top byte holding the sign bit.
\* A magnitude that does not fit the three bytes is beyond the largest single:
\* the C conversion of struct's native "f" stores it as +inf or -inf.
F32Quantum == 2 * 2
Byte == 2 * 128
Inf == 999999999
PackFloat(x) ==
    IF x = NaN THEN <<0, 0, 192, 127>>
    ELSE LET q == RoundDiv(x, F32Quantum)
             m == IF q < 0 THEN 0 - q ELSE q
         IN  IF m >= Byte * Byte * Byte
             THEN <<0, 0, 128, IF q < 0 THEN 255 ELSE 127>>
             ELSE <<m % Byte, (m \div Byte) % Byte, (m \div (Byte * Byte)) % Byte,
                    IF q < 0 THEN 128 ELSE 0>>
RECURSIVE vec_serialize(_)
vec_serialize(vector) ==
    IF Len(vector) = 0 THEN <<>>
    ELSE PackFloat(Head(vector)) \o vec_serialize(Tail(vector))

\* struct.unpack of one single: the value its four bytes stand for
UnpackFloat(b) ==
    IF b[4] \in {127, 255}
    THEN IF b[3] = 192 THEN NaN ELSE IF b[4] = 127 THEN Inf ELSE 0 - Inf
    ELSE (IF b[4] = 128 THEN 0 - 1 ELSE 1)
            * (b[1] + b[2] * Byte + b[3] * Byte * Byte) * F32Quantum

\* vec_deserialize with the elements taken from the last four bytes backwards
RECURSIVE vec_deserialize_LastFirst(_)
vec_deserialize_LastFirst(vector_bytes) ==
    IF Len(vector_bytes) \div 4 = 0 THEN <<>>
    ELSE <<UnpackFloat(SubSeq(vector_bytes, Len(vector_bytes) - 3, Len(vector_bytes)))>>
            \o vec_deserialize_LastFirst(SubSeq(vector_bytes, 1, Len(vector_bytes) - 4))

\* vec_deserialize: len // 4 elements, each from its four bytes; struct.unpack
\* raises struct.error when the length is not 4 * (len // 4)
vec_deserialize(vector_bytes) ==
    IF Len(vector_bytes) % 4 # 0 THEN <<"struct.error">>
    ELSE [i \in 1..(Len(vector_bytes) \div 4) |->
            UnpackFloat(SubSeq(vector_bytes, 4 * i - 3, 4 * i))]

\* the vectors the codec is applied to: the elements of serialize.py's own
\* test vector, a value below half a quantum, and one beyond the largest single
FloatSamples ==
    {SCALE, 2500, 0 - 3140, 0, 100500, 1, Byte * Byte * Byte * F32Quantum}
RECURSIVE SeqsUpTo(_, _)
SeqsUpTo(S, n) ==
    IF n = 0 THEN {<<>>}
    ELSE SeqsUpTo(S, n - 1) \cup {Append(q, x) : q \in {r \in SeqsUpTo(S, n - 1) : Len(r) = n - 1}, x \in S}

\* ------------------------------------------------- frames of the ingested store
\* What an earlier ingestion stored for one frame: the 3-D positions of the
\* landmarks the passes read, the presence of the four torso landmarks, and the
\* landmark indices that have no row.  Every other landmark lies at the origin
\* with presence 1.0.
BaseFrame ==
    [LS |-> Vec(1, 2, 0), RS |-> Vec(-1, 2, 0), LH |-> Vec(1, 0, 0), RH |-> Vec(-1, 0, 1),
     LK |-> Vec(1, -1, 1), RK |-> Vec(-1, -1, 1), LA |-> Vec(1, -2, 1), RA |-> Vec(-1, -2, 0),
     psLS |-> 10, psRS |-> 10, psLH |-> 10, psRH |-> 10, missing |-> {}]

FrameProfile(name) ==
    CASE name = "full" -> BaseFrame
      [] name = "lowLH" -> [BaseFrame EXCEPT !.psLH = 5]
      [] name = "lowRH" -> [BaseFrame EXCEPT !.psRH = 5]
      [] name = "noknee" -> [BaseFrame EXCEPT !.missing = {BPL_left_knee}]
      \* no row at the index the spine pass reads as the left hip
      [] name = "nohip" -> [BaseFrame EXCEPT !.missing = {CLm_left_hip}]
      \* only the two shoulders qualify
      [] name = "shoulders" -> [BaseFrame EXCEPT !.psLH = 5, !.psRH = 5]
      \* the left leg straight: knee - hip and ankle - knee are the same vector
      [] name = "straight" -> [BaseFrame EXCEPT !.LK = Vec(1, -3, 1), !.LA = Vec(1, -6, 2)]
      \* the left knee raised above the hip
      [] name = "kneeup" -> [BaseFrame EXCEPT !.LK = Vec(1, 1, 1)]

PointAt(f, i) ==
    CASE i = BPL_left_shoulder -> f.LS
      [] i = BPL_right_shoulder -> f.RS
      [] i = BPL_left_hip -> f.LH
      [] i = BPL_right_hip -> f.RH
      [] i = BPL_left_knee -> f.LK
      [] i = BPL_right_knee -> f.RK
      [] i = BPL_left_ankle -> f.LA
      [] i = BPL_right_ankle -> f.RA
      [] OTHER -> Vec(0, 0, 0)

PresenceAt(f, i) ==
    CASE i = BPL_left_shoulder -> f.psLS
      [] i = BPL_right_shoulder -> f.psRS
      [] i = BPL_left_hip -> f.psLH
      [] i = BPL_right_hip -> f.psRH
      [] OTHER -> 10

LandmarkRows(p, f) ==
    {[poseId |-> p, landmarkIndex |-> i, presence |-> PresenceAt(f, i), visibility |-> 10,
      x |-> PointAt(f, i)[1], y |-> PointAt(f, i)[2], z |-> PointAt(f, i)[3]] :
        i \in (0..(BLAZEPOSE_LANDMARK_LEN - 1)) \ f.missing}

\* frames 1 and 2 are two persons of file 1, frame 3 is the person of file 2, ...
FileOf(p) == (p + 1) \div 2
PathOf(fid) == IF fid % 2 = 1 THEN "/img/a/x.jpg" ELSE "/img/b/y.jpg"

\* the store an earlier ingestion and reliability pass left: frames[p] is the
\* profile of frame p; no direction, flexion or tag table has been created yet
IngestedStore(frames) ==
    [file |-> TRUE,
     tab |-> [t \in TableNames |->
        CASE t = "File" ->
               [EmptyTable EXCEPT !.rows =
                  {[id |-> FileOf(p), path |-> PathOf(FileOf(p))] : p \in DOMAIN frames}]
          [] t = "Pose" ->
               [EmptyTable EXCEPT !.rows =
                  {[id |-> p, fileId |-> FileOf(p), personIndex |-> (p + 1) % 2] :
                      p \in DOMAIN frames}]
          [] t = "Landmark" ->
               [EmptyTable EXCEPT !.rows =
                  UNION {LandmarkRows(p, frames[p]) : p \in DOMAIN frames}]
          [] t = "LandmarkName" -> [EmptyTable EXCEPT !.rows = SeedRows]
          [] t = "PoseRect" ->
               [EmptyTable EXCEPT !.rows = {[poseId |-> p] : p \in DOMAIN frames}]
          [] t = "Reliability" ->
               [EmptyTable EXCEPT !.rows =
                  {[poseId |-> p, torsoHalfMin |-> SCALE, faceDetect |-> SCALE] :
                      p \in DOMAIN frames}]
          [] OTHER -> NoTable]]

\* ---------------------------------------------------------- SQL statements
PoseIds(store) == {r.id : r \in store.tab["Pose"].rows}

\* the landmark row of a frame, or the empty set (fetchone() is None)
LandmarkOf(store, p, i) ==
    {r \in store.tab["Landmark"].rows : r.poseId = p /\ r.landmarkIndex = i}
TheRow(S) == CHOOSE r \in S : TRUE
Pos(r) == Vec(r.x, r.y, r.z)

\* CHECK((x*x + y*y + z*z) BETWEEN 0.995 AND 1.005), NOT NULL on x, y, z
UnitBand(v) ==
    /\ ~IsNaNVec(v)
    /\ Dot(v, v) >= 995 * SCALE
    /\ Dot(v, v) <= 1005 * SCALE

\* what a pass leaves: the connection's content, the exception it raised, and
\* the batch of rows it had computed in memory
Raised(store, e) == [store |-> store, exc |-> e, batch |-> {}]
Done(store) == [store |-> store, exc |-> "none", batch |-> {}]
SetRows(store, t, rows) == [store EXCEPT !.tab[t].rows = rows]
Missing(store, ts) == \E t \in ts : ~store.tab[t].exists
Min(S) == CHOOSE m \in S : \A n \in S : m <= n

\* ------------------------------------------------------------- spine pass
\* SpineDirDB.calculate: the row computed for frame p, or none (the frame is
\* skipped): it needs the four rows of indices 5, 6, 11, 12 and a non-zero
\* vector from the hip centre to the shoulder centre
SpineIdx == {CLm_left_hip, CLm_right_hip, CLm_left_shoulder, CLm_right_shoulder}
SpineDirOf(store, p) ==
    LET rows == {r \in store.tab["Landmark"].rows :
                    r.poseId = p /\ r.landmarkIndex \in SpineIdx}
        at(i) == Pos(TheRow({r \in rows : r.landmarkIndex = i}))
        \* twice (shoulder_center - hip_center): same direction, no halves
        d == Sub(Add(at(CLm_left_shoulder), at(CLm_right_shoulder)),
                 Add(at(CLm_left_hip), at(CLm_right_hip)))
    IN  IF Cardinality(rows) # 4 THEN {}
        ELSE IF Dot(d, d) = 0 THEN {}
        ELSE {[poseId |-> p, v |-> NormalizeInt(d)]}

SpineDirRows(store) == UNION {SpineDirOf(store, p) : p \in PoseIds(store)}

SpineCalculate(store) ==
    IF Missing(store, {"Pose"}) THEN Raised(store, "OperationalError")
    ELSE IF PoseIds(store) # {} /\ Missing(store, {"Landmark"})
    THEN Raised(store, "OperationalError")
    ELSE
    LET dir_rows == SpineDirRows(store)
        \* executemany stops at the first row the CHECK rejects
        bad == {r.poseId : r \in {q \in dir_rows : ~UnitBand(q.v)}}
        ok_rows == IF bad = {} THEN dir_rows
                   ELSE {r \in dir_rows : r.poseId < Min(bad)}
        keys == {r.poseId : r \in ok_rows}
        \* INSERT ... ON CONFLICT(poseId) DO UPDATE
        dirs == {r \in store.tab["MasseSpineDir"].rows : r.poseId \notin keys}
                  \cup {[poseId |-> r.poseId, x |-> r.v[1], y |-> r.v[2], z |-> r.v[3]] :
                            r \in ok_rows}
        s1 == SetRows(store, "MasseSpineDir", dirs)
        \* DELETE FROM MasseSpineVec WHERE poseId = ?, then INSERT
        vecs == {r \in store.tab["MasseSpineVec"].rows : r.poseId \notin keys}
                  \cup {[poseId |-> r.poseId, dir |-> vec_serialize(r.v)] : r \in ok_rows}
    IN  IF bad # {} THEN Raised(s1, "IntegrityError")
        ELSE Done(SetRows(s1, "MasseSpineVec", vecs))

\* ------------------------------------------------------ thigh and crus passes
\* normalize(B - A) for the landmark pair (a, b) of frame p, or none when a row
\* is missing or the difference has zero length
PairDir(store, p, a, b) ==
    LET A == LandmarkOf(store, p, a)
        B == LandmarkOf(store, p, b)
    IN  IF A = {} \/ B = {} THEN {}
        ELSE LET v == Sub(Pos(TheRow(B)), Pos(TheRow(A)))
             IN  IF Dot(v, v) = 0 THEN {} ELSE {NormalizeInt(v)}

ThighPair ==
    [is_right \in {0, 1} |-> IF is_right = 0 THEN <<BPL_left_hip, BPL_left_knee>>
                          ELSE <<BPL_right_hip, BPL_right_knee>>]
CrusPair ==
    [is_right \in {0, 1} |-> IF is_right = 0 THEN <<BPL_left_knee, BPL_left_ankle>>
                          ELSE <<BPL_right_knee, BPL_right_ankle>>]

\* the (frame, side) rows a pass computes from the landmarks
SideRows(store, pair) ==
    {[poseId |-> p, is_right |-> s, v |-> TheRow(PairDir(store, p, pair[s][1], pair[s][2]))] :
        <<p, s>> \in {q \in PoseIds(store) \X {0, 1} :
                         PairDir(store, q[1], pair[q[2]][1], pair[q[2]][2]) # {}}}

\* INSERT ... ON CONFLICT(poseId, is_right) DO UPDATE SET x, y, z
UpsertSide(old, new) ==
    {r \in old : \A n \in new : ~(n.poseId = r.poseId /\ n.is_right = r.is_right)}
      \cup {[poseId |-> n.poseId, is_right |-> n.is_right,
             x |-> n.v[1], y |-> n.v[2], z |-> n.v[3]] : n \in new}

\* the vec0 rows of ThighDirDB.calculate with the DELETE run after the INSERT
\* whenever the frame already had a row
ThighVecAfter_DeleteLast(old, new) ==
    {r \in old : \A n \in new : n.poseId # r.poseId}
      \cup {[poseId |-> n.poseId, is_right |-> n.is_right, dir |-> vec_serialize(n.v)] :
               n \in {m \in new : /\ \A o \in new : o.poseId = m.poseId => o.is_right <= m.is_right
                                   /\ \A r \in old : r.poseId # m.poseId}}

\* ThighDirDB.calculate, the vec0 rows: for every computed (frame, side), in the
\* order left then right, DELETE FROM MasseThighVec WHERE poseId = ? and then
\* INSERT the row of that side: the frame keeps the row of the last side computed
ThighVecAfter(old, new) ==
    {r \in old : \A n \in new : n.poseId # r.poseId}
      \cup {[poseId |-> n.poseId, is_right |-> n.is_right, dir |-> vec_serialize(n.v)] :
               n \in {m \in new : \A o \in new : o.poseId = m.poseId => o.is_right <= m.is_right}}

ThighCalculate(store) ==
    IF Missing(store, {"Pose"}) THEN Raised(store, "OperationalError")
    ELSE IF PoseIds(store) # {} /\ Missing(store, {"Landmark"})
    THEN Raised(store, "OperationalError")
    ELSE LET new == SideRows(store, ThighPair)
             s1 == SetRows(store, "MasseThighDir",
                           UpsertSide(store.tab["MasseThighDir"].rows, new))
         IN  Done(SetRows(s1, "MasseThighVec",
                          ThighVecAfter(store.tab["MasseThighVec"].rows, new)))

\* CrusDirDB.calculate: the direction rows only; no statement writes MasseCrusVec
CrusCalculate(store) ==
    IF Missing(store, {"Pose"}) THEN Raised(store, "OperationalError")
    ELSE IF PoseIds(store) # {} /\ Missing(store, {"Landmark"})
    THEN Raised(store, "OperationalError")
    ELSE Done(SetRows(store, "MasseCrusDir",
                      UpsertSide(store.tab["MasseCrusDir"].rows, SideRows(store, CrusPair))))

\* ------------------------------------------------------------- torso pass
NoDir == [method |-> "invalid", v |-> <<0, 0, 0>>]

\* four_points: both normals normalised, summed, normalised again
four_points(ps, pos) ==
    IF ps.LS /\ ps.RS /\ ps.LH /\ ps.RH
    THEN Bind(NormalizeInt(Cross(Sub(pos.LH, pos.LS), Sub(pos.RS, pos.LS))), LAMBDA dir_vA :
         Bind(NormalizeInt(Cross(Sub(pos.LS, pos.RS), Sub(pos.RH, pos.RS))), LAMBDA dir_vB :
            [method |-> "4pt",
             v |-> IF IsNaNVec(dir_vA) \/ IsNaNVec(dir_vB) THEN <<NaN, NaN, NaN>>
                   ELSE NormalizeFix(Add(dir_vA, dir_vB))]))
    ELSE NoDir

\* three_points with the operands of sub-case B's cross product exchanged
three_points_BOperandsSwapped(ps, pos) ==
    IF ps.LS /\ ps.RS /\ ps.LH
    THEN [method |-> "3pt: A",
          v |-> NormalizeInt(Cross(Sub(pos.LH, pos.LS), Sub(pos.RS, pos.LS)))]
    ELSE IF ps.LS /\ ps.RS /\ ps.RH
    THEN [method |-> "3pt: B",
          v |-> NormalizeInt(Cross(Sub(pos.RH, pos.RS), Sub(pos.LS, pos.RS)))]
    ELSE NoDir

\* three_points: both shoulders and a hip (left first), else both hips and a
\* shoulder (left first)
three_points(ps, pos) ==
    IF ps.LS /\ ps.RS /\ ps.LH
    THEN [method |-> "3pt: A",
          v |-> NormalizeInt(Cross(Sub(pos.LH, pos.LS), Sub(pos.RS, pos.LS)))]
    ELSE IF ps.LS /\ ps.RS /\ ps.RH
    THEN [method |-> "3pt: B",
          v |-> NormalizeInt(Cross(Sub(pos.LS, pos.RS), Sub(pos.RH, pos.RS)))]
    ELSE IF ps.LH /\ ps.RH /\ ps.LS
    THEN [method |-> "3pt: C",
          v |-> NormalizeInt(Cross(Sub(pos.LS, pos.LH), Sub(pos.RH, pos.LH)))]
    ELSE IF ps.LH /\ ps.RH /\ ps.RS
    THEN [method |-> "3pt: D",
          v |-> NormalizeInt(Cross(Sub(pos.RS, pos.RH), Sub(pos.LH, pos.RH)))]
    ELSE NoDir

\* two_points: one diagonal, crossed with +z or -z by the points' x order
two_points(ps, pos) ==
    IF ps.LS /\ ps.RH
    THEN [method |-> "2pt: A",
          v |-> NormalizeInt(Cross(Sub(pos.RH, pos.LS),
                                   IF pos.LS[1] < pos.RH[1] THEN <<0, 0, 1>> ELSE <<0, 0, -1>>))]
    ELSE IF ps.LH /\ ps.RS
    THEN [method |-> "2pt: B",
          v |-> NormalizeInt(Cross(Sub(pos.LH, pos.RS),
                                   IF pos.LH[1] < pos.RS[1] THEN <<0, 0, 1>> ELSE <<0, 0, -1>>))]
    ELSE NoDir

\* the tiers with two_points tried before three_points
TorsoDir_TwoBeforeThree(ps, pos) ==
    Bind(four_points(ps, pos), LAMBDA d4 :
        IF d4 # NoDir THEN d4
        ELSE Bind(two_points(ps, pos), LAMBDA d2 :
                IF d2 # NoDir THEN d2 ELSE three_points(ps, pos)))

\* dir_v_np = four_points() or three_points() or two_points()
TorsoDir(ps, pos) ==
    Bind(four_points(ps, pos), LAMBDA d4 :
        IF d4 # NoDir THEN d4
        ELSE Bind(three_points(ps, pos), LAMBDA d3 :
                IF d3 # NoDir THEN d3 ELSE two_points(ps, pos)))

\* the presence tests and positions calc_torsodir reads from a frame's rows
TorsoPresence(store, p) ==
    LET at(i) == TheRow(LandmarkOf(store, p, i))
    IN  [LS |-> at(BPL_left_shoulder).presence >= TH_PRESENCE,
         RS |-> at(BPL_right_shoulder).presence >= TH_PRESENCE,
         LH |-> at(BPL_left_hip).presence >= TH_PRESENCE,
         RH |-> at(BPL_right_hip).presence >= TH_PRESENCE]
TorsoPositions(store, p) ==
    LET at(i) == Pos(TheRow(LandmarkOf(store, p, i)))
    IN  [LS |-> at(BPL_left_shoulder), RS |-> at(BPL_right_shoulder),
         LH |-> at(BPL_left_hip), RH |-> at(BPL_right_hip)]

\* the direction calc_torsodir computes for frame p
TorsoDirOf(store, p) ==
    Bind(TorsoPresence(store, p), LAMBDA ps :
        Bind(TorsoPositions(store, p), LAMBDA pos : TorsoDir(ps, pos)))

\* yaw_vec: the x and z components normalised, [0, 0] when they vanish (or are nan)
YawVec(v) ==
    Bind(IF IsNaNVec(v) THEN 0 ELSE ISqrt(v[1] * v[1] + v[3] * v[3]), LAMBDA n :
        IF n > 0 THEN <<RoundDiv(v[1] * SCALE, n), RoundDiv(v[3] * SCALE, n)>>
        ELSE <<0, 0>>)

\* arctan(z) / (pi / 2) for 0 <= z <= 1, z and the result in units of 1/SCALE:
\* z/2 + 0.174 z (1 - z), which is within 0.003 of the quotient
AtanUnit(z) == z \div 2 + RoundDiv(174 * z * (SCALE - z), SCALE * SCALE)

\* pitch_norm: arctan2(y, |xz|) / (pi / 2), clipped to [-1, 1]; max(-1.0,
\* min(1.0, nan)) is 1.0
PitchOf(y, h) ==
    IF y = 0 THEN 0
    ELSE IF y <= h THEN AtanUnit(RoundDiv(y * SCALE, h))
    ELSE SCALE - AtanUnit(RoundDiv(h * SCALE, y))
PitchNorm(v) ==
    IF IsNaNVec(v) THEN SCALE
    ELSE Bind(ISqrt(v[1] * v[1] + v[3] * v[3]), LAMBDA h :
            IF v[2] < 0 THEN 0 - PitchOf(0 - v[2], h) ELSE PitchOf(v[2], h))

\* one element of dir_data (and of dir_vec_data), from the direction d
TorsoEntry(store, p, d) ==
    Bind(YawVec(d.v), LAMBDA yaw_vec :
        [poseId |-> p, x |-> d.v[1], y |-> d.v[2], z |-> d.v[3], method |-> d.method,
         score |-> TheRow({r \in store.tab["Reliability"].rows : r.poseId = p}).torsoHalfMin,
         yaw_x |-> yaw_vec[1], yaw_z |-> yaw_vec[2], pitch |-> PitchNorm(d.v)])

\* one turn of the loop over Pose: what stops it (err), or what it appends to
\* dir_data (entry, at most one).  A frame without its 33 landmark rows fails
\* the assert; a frame without its File row or, when a direction was found,
\* without its Reliability row makes fetchone() return None
TorsoFound(store, p, d) ==
    IF d = NoDir THEN [poseId |-> p, err |-> "none", entry |-> {}]
    ELSE IF Missing(store, {"Reliability"})
    THEN [poseId |-> p, err |-> "OperationalError", entry |-> {}]
    ELSE IF ~\E r \in store.tab["Reliability"].rows : r.poseId = p
    THEN [poseId |-> p, err |-> "TypeError", entry |-> {}]
    ELSE [poseId |-> p, err |-> "none", entry |-> {TorsoEntry(store, p, d)}]
TorsoScan(store, p) ==
    IF Cardinality({r \in store.tab["Landmark"].rows : r.poseId = p}) # BLAZEPOSE_LANDMARK_LEN
    THEN [poseId |-> p, err |-> "AssertionError", entry |-> {}]
    ELSE IF ~\E po \in store.tab["Pose"].rows, f \in store.tab["File"].rows :
                po.id = p /\ f.id = po.fileId
    THEN [poseId |-> p, err |-> "TypeError", entry |-> {}]
    ELSE Bind(TorsoDirOf(store, p), LAMBDA d : TorsoFound(store, p, d))

\* the number of columns of MasseTorsoDir (desc/torsodir.py) and the number of
\* values of the INSERT (torsodir_db.py)
MasseTorsoDirColumns == 11
TorsoInsertValues == 9

\* the row constraints of MasseTorsoDir
TorsoRowOk(e) ==
    /\ UnitBand(<<e.x, e.y, e.z>>)
    /\ e.score >= 0 /\ e.score <= SCALE
    /\ e.pitch >= 0 - SCALE /\ e.pitch <= SCALE
    /\ e.yaw_x * e.yaw_x + e.yaw_z * e.yaw_z >= 995 * SCALE
    /\ e.yaw_x * e.yaw_x + e.yaw_z * e.yaw_z <= 1005 * SCALE

TorsoVecRow(e) ==
    [poseId |-> e.poseId, dir |-> vec_serialize(<<e.x, e.y, e.z>>),
     yaw |-> vec_serialize(<<e.yaw_x, e.yaw_z>>)]

\* the statements after the loop: DELETE the rows of every frame of Pose from
\* both tables, then INSERT dir_data and dir_vec_data.  executemany stops at
\* the first row a constraint rejects.
TorsoWrite(store, ids, dir_data) ==
    Bind(SetRows(SetRows(store, "MasseTorsoDir",
                         {r \in store.tab["MasseTorsoDir"].rows : r.poseId \notin ids}),
                 "MasseTorsoVec",
                 {r \in store.tab["MasseTorsoVec"].rows : r.poseId \notin ids}), LAMBDA s2 :
    Bind({e.poseId : e \in {d \in dir_data : ~TorsoRowOk(d)}}, LAMBDA bad :
        IF TorsoInsertValues # MasseTorsoDirColumns
        THEN [store |-> s2, exc |-> "OperationalError", batch |-> dir_data]
        ELSE IF bad # {}
        THEN [store |-> SetRows(s2, "MasseTorsoDir", s2.tab["MasseTorsoDir"].rows
                                   \cup {e \in dir_data : e.poseId < Min(bad)}),
              exc |-> "IntegrityError", batch |-> dir_data]
        ELSE [store |-> SetRows(SetRows(s2, "MasseTorsoDir",
                                        s2.tab["MasseTorsoDir"].rows \cup dir_data),
                                "MasseTorsoVec", s2.tab["MasseTorsoVec"].rows
                                   \cup {TorsoVecRow(e) : e \in dir_data}),
              exc |-> "none", batch |-> dir_data]))

\* the loop of calc_torsodir over the frames in id order, up to the frame that
\* raises
TorsoLoop(store, scan) ==
    Bind({t.poseId : t \in {u \in scan : u.err # "none"}}, LAMBDA stop :
        IF stop # {}
        THEN [store |-> store,
              exc |-> TheRow({t \in scan : t.poseId = Min(stop)}).err,
              batch |-> UNION {t.entry : t \in {u \in scan : u.poseId < Min(stop)}}]
        ELSE TorsoWrite(store, {t.poseId : t \in scan}, UNION {t.entry : t \in scan}))

\* MasseTorsoDB.calc_torsodir
calc_torsodir(store) ==
    IF Missing(store, {"Pose"}) THEN Raised(store, "OperationalError")
    ELSE IF PoseIds(store) # {} /\ Missing(store, {"Landmark", "File"})
    THEN Raised(store, "OperationalError")
    ELSE Bind({TorsoScan(store, p) : p \in PoseIds(store)}, LAMBDA scan :
            TorsoLoop(store, scan))

\* ----------------------------------------------------------- flexion passes
\* SQL acos() in milliradians of a dot product in units of 1/SCALE^2: NULL
\* outside [-1, 1]; inside, sqrt(2u) (1 + u/12 + 3u^2/160) with u = 1 - |x|,
\* which is within 1% of the arc cosine
PiMilli == 3142
ACos(d) ==
    LET m == IF d < 0 THEN 0 - d ELSE d
        u == SCALE * SCALE - m
        r == ISqrt(2 * u)
        a == r + (r * u) \div (12 * SCALE * SCALE)
               + (r * ((u \div SCALE) * (u \div SCALE))) \div (53 * SCALE * SCALE)
    IN  IF m > SCALE * SCALE THEN NULL
        ELSE IF d < 0 THEN PiMilli - a ELSE a

RowVec(r) == Vec(r.x, r.y, r.z)

\* the SELECT with the sign of the angle taken from dot(torso, thigh)
ThighFlexionSelect_SignFromBodyDot(store) ==
    {[poseId |-> p, is_right |-> mth.is_right,
      dotBody |-> Dot(RowVec(mtd), RowVec(mth)),
      angleRad |->
         LET dtt == Dot(RowVec(mtd), RowVec(mth))
             clamped == IF dtt > SCALE * SCALE THEN SCALE * SCALE
                        ELSE IF dtt < 0 - SCALE * SCALE THEN 0 - SCALE * SCALE ELSE dtt
         IN  IF dtt < 0 THEN ACos(clamped) ELSE 0 - ACos(clamped),
      dotSpine |-> Dot(RowVec(mth), RowVec(msd))] :
        <<p, mtd, mth, msd>> \in
            {q \in PoseIds(store) \X store.tab["MasseTorsoDir"].rows
                     \X store.tab["MasseThighDir"].rows \X store.tab["MasseSpineDir"].rows :
                q[2].poseId = q[1] /\ q[3].poseId = q[1] /\ q[4].poseId = q[1]}}

\* the SELECT of ThighFlexionDB.calculate_flexion
ThighFlexionSelect(store) ==
    {[poseId |-> p, is_right |-> mth.is_right,
      dotBody |-> Dot(RowVec(mtd), RowVec(mth)),
      angleRad |->
         LET dtt == Dot(RowVec(mtd), RowVec(mth))
             clamped == IF dtt > SCALE * SCALE THEN SCALE * SCALE
                        ELSE IF dtt < 0 - SCALE * SCALE THEN 0 - SCALE * SCALE ELSE dtt
         IN  IF Dot(RowVec(mth), RowVec(msd)) < 0 THEN ACos(clamped) ELSE 0 - ACos(clamped),
      dotSpine |-> Dot(RowVec(mth), RowVec(msd))] :
        <<p, mtd, mth, msd>> \in
            {q \in PoseIds(store) \X store.tab["MasseTorsoDir"].rows
                     \X store.tab["MasseThighDir"].rows \X store.tab["MasseSpineDir"].rows :
                q[2].poseId = q[1] /\ q[3].poseId = q[1] /\ q[4].poseId = q[1]}}

InUnit(d) == d >= 0 - SCALE * SCALE /\ d <= SCALE * SCALE

\* ThighFlexionDB.calculate_flexion: one INSERT ... SELECT; a key that is
\* already stored, or a dot product outside [-1, 1], fails the whole statement
ThighFlexionCalculate(store) ==
    IF Missing(store, {"Pose", "MasseTorsoDir", "MasseThighDir", "MasseSpineDir"})
    THEN Raised(store, "OperationalError")
    ELSE LET new == ThighFlexionSelect(store)
             old == store.tab["ThighFlexion"].rows
         IN  IF \E n \in new, o \in old : n.poseId = o.poseId /\ n.is_right = o.is_right
             THEN Raised(store, "IntegrityError")
             ELSE IF \E n \in new : ~InUnit(n.dotBody) \/ ~InUnit(n.dotSpine)
             THEN Raised(store, "IntegrityError")
             ELSE Done(SetRows(store, "ThighFlexion", old \cup new))

\* the SELECT of CrusFlexionDB.calculate_flexion: acos() of the raw dot product
CrusFlexionSelect(store) ==
    {[poseId |-> t.poseId, is_right |-> t.is_right,
      angleRad |-> ACos(Dot(RowVec(t), RowVec(c)))] :
        <<t, c>> \in {q \in store.tab["MasseThighDir"].rows \X store.tab["MasseCrusDir"].rows :
                         q[1].poseId = q[2].poseId /\ q[1].is_right = q[2].is_right}}

\* CrusFlexionDB.calculate_flexion: INSERT ... SELECT ... ON CONFLICT DO UPDATE;
\* with foreign keys on, a row of a frame that Pose does not hold is rejected
CrusFlexionCalculate(store, fkOn) ==
    IF Missing(store, {"MasseThighDir", "MasseCrusDir"}) THEN Raised(store, "OperationalError")
    ELSE LET new == CrusFlexionSelect(store)
             old == store.tab["CrusFlexion"].rows
         IN  IF fkOn /\ \E n \in new : n.poseId \notin PoseIds(store)
             THEN Raised(store, "IntegrityError")
             ELSE Done(SetRows(store, "CrusFlexion",
                     {o \in old : \A n \in new :
                         ~(n.poseId = o.poseId /\ n.is_right = o.is_right)} \cup new))

\* ------------------------------------------------------- reliability pass
\* The Landmark table the pass reads is either the one desc/posedb.py declares
\* (33 rows a frame, columns presence and visibility) or the one write_landmarks
\* of make_pose_db.py fills (17 rows a frame, column confidence).
LandmarkLayouts == {"presence", "confidence"}
LandmarkColumn(store) == IF store.tab["Landmark"].cols THEN "presence" ELSE "confidence"

\* the landmarkIndex conditions of the three grouped queries
CocoRegions ==
    [face |-> 0..CLm_right_ear,
     left |-> {CLm_left_shoulder, CLm_left_elbow, CLm_left_knee, CLm_left_ankle},
     right |-> {CLm_right_shoulder, CLm_right_elbow, CLm_right_knee, CLm_right_ankle}]
BlazeRegions ==
    [face |-> 0..10, left |-> {11, 13, 23, 25}, right |-> {12, 14, 24, 26}]

\* what the detector reported for one frame: the regions it reported no
\* landmark of, the confidence (in tenths) of the left-limb landmarks, and the
\* left landmarks (hip, ankle) it reported with a confidence of 0.5
RelProfile(name) ==
    CASE name = "full" -> [absent |-> {}, leftConf |-> 10, weak |-> {}]
      [] name = "noface" -> [absent |-> {"face"}, leftConf |-> 10, weak |-> {}]
      [] name = "nolimbs" -> [absent |-> {"left", "right"}, leftConf |-> 10, weak |-> {}]
      [] name = "weakleft" -> [absent |-> {}, leftConf |-> 8, weak |-> {}]
      [] name = "weakhip" -> [absent |-> {}, leftConf |-> 10, weak |-> {"hip"}]
      [] name = "weakankle" -> [absent |-> {}, leftConf |-> 10, weak |-> {"ankle"}]
RelProfileNames == {"full", "noface", "nolimbs", "weakleft", "weakhip", "weakankle"}
\* the index of the left hip and of the left ankle in either vocabulary
WeakIndex(layout) ==
    IF layout = "confidence" THEN [hip |-> CLm_left_hip, ankle |-> CLm_left_ankle]
    ELSE [hip |-> BPL_left_hip, ankle |-> BPL_left_ankle]

RelLandmarkRows(layout, p, f) ==
    LET reg == IF layout = "confidence" THEN CocoRegions ELSE BlazeRegions
        n == IF layout = "confidence" THEN COCO_LANDMARK_LEN ELSE BLAZEPOSE_LANDMARK_LEN
        gone == UNION {reg[g] : g \in f.absent}
        val(i) == IF \E w \in f.weak : i = WeakIndex(layout)[w] THEN 5
                  ELSE IF i \in reg.left THEN f.leftConf ELSE 10
    IN  {IF layout = "confidence"
         THEN [poseId |-> p, landmarkIndex |-> i, confidence |-> val(i),
               x |-> 0, y |-> 0, z |-> 0, td_x |-> 0, td_y |-> 0]
         ELSE [poseId |-> p, landmarkIndex |-> i, presence |-> val(i), visibility |-> 10,
               x |-> 0, y |-> 0, z |-> 0] : i \in (0..(n - 1)) \ gone}

\* an ingested store of that layout; `given`: an earlier reliability pass left
\* a row for every frame, otherwise the Reliability table does not exist yet
RelStore(layout, names, given) ==
    [IngestedStore([p \in DOMAIN names |-> BaseFrame]) EXCEPT
        !.tab["Landmark"] =
            [exists |-> TRUE, cols |-> layout = "presence",
             rows |-> UNION {RelLandmarkRows(layout, p, RelProfile(names[p])) :
                                p \in DOMAIN names}],
        !.tab["Reliability"] = IF given THEN @ ELSE NoTable]

\* AVG(c * c) over the rows of one group, in units of 1/SCALE (c is in tenths)
RECURSIVE SumSq(_, _)
SumSq(rows, col) ==
    IF rows = {} THEN 0
    ELSE LET r == CHOOSE x \in rows : TRUE
         IN  r[col] * r[col] + SumSq(rows \ {r}, col)
AvgSq(rows, col) == RoundDiv(SumSq(rows, col) * (SCALE \div 100), Cardinality(rows))

\* SELECT Pose.id, AVG(lm.col * lm.col) FROM Pose JOIN Landmark AS lm
\* ON Pose.id = lm.poseId WHERE landmarkIndex in idx GROUP BY Pose.id
\* ORDER BY Pose.id ASC: a frame with no row in idx has no entry
GroupAvg(store, col, idx) ==
    Bind({[id |-> p,
           avg |-> AvgSq({r \in store.tab["Landmark"].rows :
                             r.poseId = p /\ r.landmarkIndex \in idx}, col)] :
             p \in {q \in PoseIds(store) :
                      \E r \in store.tab["Landmark"].rows :
                          r.poseId = q /\ r.landmarkIndex \in idx}},
         LAMBDA S : CHOOSE q \in [1..Cardinality(S) -> S] :
                       \A i, j \in 1..Cardinality(S) : i < j => q[i].id < q[j].id)

\* the two asserts and the zip loop: whether an assert failed, and the rows
\* to write
RelZip(face, left, right) ==
    IF ~(Len(face) = Len(left) /\ Len(left) = Len(right))
    THEN [failed |-> TRUE, rows |-> <<>>]
    ELSE IF \E i \in 1..Len(face) : ~(face[i].id = left[i].id /\ left[i].id = right[i].id)
    THEN [failed |-> TRUE, rows |-> <<>>]
    ELSE [failed |-> FALSE,
          rows |-> [i \in 1..Len(face) |->
                      [poseId |-> face[i].id,
                       torsoHalfMin |-> Min({left[i].avg, right[i].avg}),
                       faceDetect |-> face[i].avg]]]

\* executemany("INSERT INTO Reliability VALUES(?,?,?)"): the rows go in one by
\* one and the first that repeats a poseId (UNIQUE) raises, the ones before it
\* stay in the open transaction
RelInsert(store, data) ==
    LET old == store.tab["Reliability"].rows
        clash == {i \in 1..Len(data) : \E o \in old : o.poseId = data[i].poseId}
        upto == IF clash = {} THEN Len(data) ELSE Min(clash) - 1
        after == SetRows(store, "Reliability", old \cup {data[i] : i \in 1..upto})
    IN  [store |-> after,
         exc |-> IF clash = {} THEN "none" ELSE "IntegrityError",
         batch |-> {data[i] : i \in 1..Len(data)}]

\* DELETE FROM Reliability WHERE poseId IN (SELECT id FROM Pose)
RelDelete(store) ==
    SetRows(store, "Reliability",
            {o \in store.tab["Reliability"].rows : o.poseId \notin PoseIds(store)})

\* the DELETE issued before the aggregates are compared
reliability_db_calculate_reliability_DeleteFirst(store) ==
    IF LandmarkColumn(store) # "confidence" THEN Raised(store, "OperationalError")
    ELSE Bind(RelZip(GroupAvg(store, "confidence", CocoRegions.face),
                     GroupAvg(store, "confidence", CocoRegions.left),
                     GroupAvg(store, "confidence", CocoRegions.right)),
              LAMBDA z :
                  IF z.failed THEN Raised(RelDelete(store), "AssertionError")
                  ELSE RelInsert(RelDelete(store), z.rows))

\* reliability_db.py, ReliabilityDB.calculate_reliability: the pass make_db runs
reliability_db_calculate_reliability(store) ==
    IF LandmarkColumn(store) # "confidence" THEN Raised(store, "OperationalError")
    ELSE Bind(RelZip(GroupAvg(store, "confidence", CocoRegions.face),
                     GroupAvg(store, "confidence", CocoRegions.left),
                     GroupAvg(store, "confidence", CocoRegions.right)),
              LAMBDA z :
                  IF z.failed THEN Raised(store, "AssertionError")
                  ELSE RelInsert(RelDelete(store), z.rows))

\* reliabilitydb.py, ReliabilityDB.calculate_reliability: the pass
\* calc_reliability.py runs; it has no DELETE
reliabilitydb_calculate_reliability(store) ==
    IF LandmarkColumn(store) # "presence" THEN Raised(store, "OperationalError")
    ELSE Bind(RelZip(GroupAvg(store, "presence", BlazeRegions.face),
                     GroupAvg(store, "presence", BlazeRegions.left),
                     GroupAvg(store, "presence", BlazeRegions.right)),
              LAMBDA z :
                  IF z.failed THEN Raised(store, "AssertionError")
                  ELSE RelInsert(store, z.rows))

\* --------------------------------------------------------- the store's life
Nobody == [cls |-> "none", reset |-> FALSE, how |-> "none", again |-> FALSE, same |-> FALSE]
NoRun == [cls |-> "none", reset |-> FALSE, how |-> "none", again |-> FALSE, same |-> FALSE,
          exc |-> "none", closechk |-> "none", committed |-> FALSE]

\* the run that closed last was a run of this class with this reset option
SameAsLast(cls, reset) == last.cls = cls /\ last.reset = reset /\ last.committed

\* Db.__enter__: connect, then initialise (new file or reset), or validate and
\* re-initialise on a missing table, then switch foreign keys on
Enter(cls, reset) ==
    /\ pc = "idle"
    /\ LET should_initialized == ~disk.file \/ reset
           chk == IF should_initialized THEN "ok"
                  ELSE check_validity(disk, Table_Def(cls))
           reinit == should_initialized \/ chk = "VCFTableNotFound"
           how == IF should_initialized THEN "init"
                  ELSE IF reinit THEN "repair" ELSE "valid"
           \* DROP and CREATE run outside any transaction: they are committed at once
           created == [(IF reinit THEN InitTables(disk, cls) ELSE disk) EXCEPT !.file = TRUE]
       IN  /\ pre' = disk
           /\ IF chk \in {"VCFColumnMismatch", "VCFInvalidRow"}
              THEN /\ last' = [cls |-> cls, reset |-> reset, how |-> "raised",
                               again |-> cls \in done, same |-> SameAsLast(cls, reset),
                               exc |-> chk,
                               closechk |-> "none", committed |-> FALSE]
                   /\ UNCHANGED <<disk, work, pc, cur, exc, txn, fk>>
              ELSE /\ disk' = created
                   /\ work' = IF reinit THEN post_table_initialized(created, cls) ELSE created
                   \* the seed INSERTs open a transaction, and PRAGMA foreign_keys
                   \* has no effect inside a transaction
                   /\ txn' = (reinit /\ HasSeed(cls))
                   /\ fk' = ~(reinit /\ HasSeed(cls))
                   /\ pc' = "body"
                   /\ cur' = [cls |-> cls, reset |-> reset, how |-> how,
                             again |-> cls \in done, same |-> SameAsLast(cls, reset)]
                   /\ exc' = "none"
                   /\ UNCHANGED last
    /\ UNCHANGED <<batch, done, orch, codec, pool, conv>>

\* a pass's body ran on the connection and left `r`; `commits` says that the
\* body ends with db.commit() when nothing was raised
Ran(r, commits) ==
    /\ work' = r.store
    /\ exc' = r.exc
    /\ batch' = r.batch
    /\ IF commits /\ r.exc = "none"
       THEN disk' = r.store /\ txn' = FALSE
       ELSE disk' = disk /\ txn' = (txn \/ r.store # work)
    /\ pc' = "exit"
    /\ UNCHANGED <<cur, fk, pre, last, done, orch, codec, pool, conv>>

\* __exit__ with every finding of the close-time validation ignored
Exit_IgnoresEveryFinding ==
    /\ pc = "exit"
    /\ disk' = work
    /\ work' = work
    /\ last' = [cls |-> cur.cls, reset |-> cur.reset, how |-> cur.how, again |-> cur.again, same |-> cur.same,
                exc |-> exc,
                closechk |-> IF exc = "none" THEN check_validity(work, Table_Def(cur.cls))
                             ELSE "none",
                committed |-> TRUE]
    /\ done' = done \cup {cur.cls}
    /\ pc' = "idle"
    /\ cur' = Nobody
    /\ exc' = "none"
    /\ txn' = FALSE
    /\ fk' = FALSE
    /\ UNCHANGED <<pre, batch, orch, codec, pool, conv>>

\* Db.__exit__: validate when no exception is in flight (only a missing table
\* is ignored), then commit and close
Exit ==
    /\ pc = "exit"
    /\ LET chk == IF exc = "none" THEN check_validity(work, Table_Def(cur.cls)) ELSE "none"
           raises == chk \in {"VCFColumnMismatch", "VCFInvalidRow"}
           \* an exception leaving __exit__ skips commit() and close(): the pending
           \* writes are rolled back when the connection is discarded
           after == IF raises THEN disk ELSE work
       IN  /\ disk' = after
           /\ work' = after
           /\ last' = [cls |-> cur.cls, reset |-> cur.reset, how |-> cur.how,
                       again |-> cur.again, same |-> cur.same,
                       exc |-> IF raises THEN chk ELSE exc,
                       closechk |-> chk, committed |-> ~raises]
           /\ done' = IF raises THEN done ELSE done \cup {cur.cls}
    /\ pc' = "idle"
    /\ cur' = Nobody
    /\ exc' = "none"
    /\ txn' = FALSE
    /\ fk' = FALSE
    /\ UNCHANGED <<pre, batch, orch, codec, pool, conv>>

\* the bodies of the process() functions
TorsoBody ==
    /\ pc = "body" /\ cur.cls = "MasseTorsoDB"
    /\ \E r \in {calc_torsodir(work)} : Ran(r, TRUE)
SpineBody ==
    /\ pc = "body" /\ cur.cls = "SpineDirDB"
    /\ \E r \in {SpineCalculate(work)} : Ran(r, FALSE)
ThighBody ==
    /\ pc = "body" /\ cur.cls = "ThighDirDB"
    /\ \E r \in {ThighCalculate(work)} : Ran(r, FALSE)
CrusBody ==
    /\ pc = "body" /\ cur.cls = "CrusDirDB"
    /\ \E r \in {CrusCalculate(work)} : Ran(r, FALSE)
ThighFlexionBody ==
    /\ pc = "body" /\ cur.cls = "ThighFlexionDB"
    /\ \E r \in {ThighFlexionCalculate(work)} : Ran(r, FALSE)
CrusFlexionBody ==
    /\ pc = "body" /\ cur.cls = "CrusFlexionDB"
    /\ \E r \in {CrusFlexionCalculate(work, fk)} : Ran(r, FALSE)

ReliabilityBody ==
    /\ pc = "body" /\ cur.cls = "ReliabilityDB"
    /\ \E r \in {reliability_db_calculate_reliability(work)} : Ran(r, FALSE)
ReliabilityBody_calc ==
    /\ pc = "body" /\ cur.cls = "reliabilitydb.ReliabilityDB"
    /\ \E r \in {reliabilitydb_calculate_reliability(work)} : Ran(r, FALSE)

\* ------------------------------------------------------------- ingestion
\* the image files the scan of target_dir can find
ImagePaths == {"/img/a/x.jpg", "/img/n/w.jpg"}
\* the rowid SQLite gives a new row of an INTEGER PRIMARY KEY table
NextId(rows) ==
    IF rows = {} THEN 1
    ELSE 1 + (CHOOSE m \in {r.id : r \in rows} : \A r \in rows : r.id <= m)

\* register_imagefile for one path: a path already stored is not registered
\* again, a new one gets the next File id
RegisterFile(store, path) ==
    IF \E f \in store.tab["File"].rows : f.path = path THEN store
    ELSE SetRows(store, "File", store.tab["File"].rows
                   \cup {[id |-> NextId(store.tab["File"].rows), path |-> path]})

\* write_landmarks for the first person of a new file: the Pose row is
\* inserted, then the INSERT INTO Landmark of 8 values into the 9 columns of
\* the table raises; process() logs the exception and goes on to the next file
WriteFirstPerson(store, path) ==
    Bind(TheRow({f \in store.tab["File"].rows : f.path = path}).id, LAMBDA file_id :
        SetRows(store, "Pose", store.tab["Pose"].rows
                  \cup {[id |-> NextId(store.tab["Pose"].rows), fileId |-> file_id,
                         personIndex |-> 0]}))

\* process() of make_pose_db inside the open store, for the files `found` (at
\* most one is new in a run of this model) and `persons` detected in each
Ingest(store, found, persons) ==
    Bind({q \in found : ~\E f \in store.tab["File"].rows : f.path = q}, LAMBDA new :
        IF new = {} THEN Done(store)
        ELSE Bind(RegisterFile(store, TheRow(new)), LAMBDA s1 :
                IF persons = 0 THEN Done(s1) ELSE Done(WriteFirstPerson(s1, TheRow(new)))))

PoseBody ==
    /\ pc = "body" /\ cur.cls = "PoseDB"
    /\ \E found \in {{}} \cup {{q} : q \in ImagePaths}, persons \in 0..1 :
          \E r \in {Ingest(work, found, persons)} : Ran(r, TRUE)

\* ------------------------------------------------------ file registration
\* The image files register_imagefile can be given: path.stat() and the
\* SHA-512 of the content.  size and timestamp satisfy the CHECKs of File.
FilePaths == {"/img/a/x.jpg", "/img/b/y.jpg"}
FileSizes == {1, 2}
FileTimes == {1}
FileHashes == {"h1", "h2"}
ImageFiles == [path : FilePaths, size : FileSizes, timestamp : FileTimes, hash : FileHashes]

\* path.as_posix(), and the path written: posix_to_windows(str(path)) in WSL
as_posix(path) == <<"posix", path>>
path_to_write(path, in_wsl) == IF in_wsl THEN <<"windows", path>> ELSE as_posix(path)

\* PoseDB.register_imagefile: SELECT by path (unchanged when size and timestamp
\* agree), else SELECT by hash (moved: UPDATE the path), else INSERT.  path is
\* UNIQUE: the UPDATE and the INSERT raise IntegrityError when another row has
\* the path written.
register_imagefile(store, f, in_wsl) ==
    LET rows == store.tab["File"].rows
        by_path == {r \in rows : r.path = as_posix(f.path)}
        by_hash == {r \in rows : r.hash = f.hash}
        written == path_to_write(f.path, in_wsl)
    IN  IF by_path # {} /\ TheRow(by_path).size = f.size
                        /\ TheRow(by_path).timestamp = f.timestamp
        THEN [store |-> store, exc |-> "none", created |-> FALSE, id |-> TheRow(by_path).id]
        ELSE IF by_hash # {}
        THEN IF \E r \in rows : r.path = written /\ r.hash # f.hash
             THEN [store |-> store, exc |-> "IntegrityError", created |-> FALSE, id |-> 0]
             ELSE [store |-> SetRows(store, "File",
                                     {IF r.hash = f.hash THEN [r EXCEPT !.path = written]
                                      ELSE r : r \in rows}),
                   exc |-> "none", created |-> FALSE, id |-> TheRow(by_hash).id]
        ELSE IF \E r \in rows : r.path = written
        THEN [store |-> store, exc |-> "IntegrityError", created |-> FALSE, id |-> 0]
        ELSE [store |-> SetRows(store, "File",
                                rows \cup {[id |-> NextId(rows), path |-> written,
                                            size |-> f.size, timestamp |-> f.timestamp,
                                            hash |-> f.hash]}),
              exc |-> "none", created |-> TRUE, id |-> NextId(rows)]

\* process()'s loop over image_paths inside the open store, for a target_dir
\* that holds one image
RegisterImage ==
    /\ pc = "body" /\ cur.cls = "PoseDB"
    /\ conv.at = "none"
    /\ \E f \in ImageFiles, in_wsl \in BOOLEAN :
          \E r \in {register_imagefile(work, f, in_wsl)} :
              /\ work' = r.store
              /\ exc' = r.exc
              /\ txn' = (txn \/ r.store # work)
              /\ conv' = [at |-> "registered", file |-> f, in_wsl |-> in_wsl,
                          before |-> work.tab["File"].rows,
                          created |-> r.created, id |-> r.id]
    /\ UNCHANGED <<disk, pc, cur, fk, pre, last, batch, done, orch, codec, pool>>

\* the end of process()'s with block: db.commit() when nothing was raised
RegisterDone ==
    /\ pc = "body" /\ cur.cls = "PoseDB"
    /\ conv.at = "registered"
    /\ conv' = NoConv
    /\ disk' = IF exc = "none" THEN work ELSE disk
    /\ txn' = IF exc = "none" THEN FALSE ELSE txn
    /\ pc' = "exit"
    /\ UNCHANGED <<work, cur, exc, fk, pre, last, batch, done, orch, codec, pool>>

\* ------------------------------------------------------------ the stores run on
FrameNames == {"full", "lowLH", "lowRH", "noknee", "straight", "kneeup"}
\* the frames that differ for the direction passes
DirFrameNames == FrameNames \ {"straight", "kneeup"}
FramesOf(names) == [p \in DOMAIN names |-> FrameProfile(names[p])]

\* the MasseTorsoDir and MasseTorsoVec rows of a store written while the torso
\* pass's INSERT matched the table: the rows calc_torsodir computes
TorsoRowsGiven(store) ==
    Bind({e \in UNION {TorsoScan(store, p).entry : p \in PoseIds(store)} : TorsoRowOk(e)},
         LAMBDA rows :
            [store EXCEPT
               !.tab["MasseTorsoDir"] = [EmptyTable EXCEPT !.rows = rows],
               !.tab["MasseTorsoVec"] = [EmptyTable EXCEPT !.rows =
                                            {TorsoVecRow(e) : e \in rows}]])

Quiet ==
    /\ work = disk
    /\ pc = "idle"
    /\ cur = Nobody
    /\ exc = "none"
    /\ txn = FALSE
    /\ fk = FALSE
    /\ pre = disk
    /\ last = NoRun
    /\ batch = {}
    /\ done = {}
    /\ orch = NoOrch
    /\ codec = NoCodec
    /\ pool = NoPool
    /\ conv = NoConv

\* the direction engine on an ingested store
DirClasses == {"MasseTorsoDB", "SpineDirDB", "ThighDirDB", "CrusDirDB"}
Init ==
    /\ \E names \in [1..MaxPose -> DirFrameNames], given \in BOOLEAN :
          disk = IF given THEN TorsoRowsGiven(IngestedStore(FramesOf(names)))
                 ELSE IngestedStore(FramesOf(names))
    /\ Quiet

Next ==
    \/ \E cls \in DirClasses, reset \in BOOLEAN : Enter(cls, reset)
    \/ TorsoBody
    \/ SpineBody
    \/ ThighBody
    \/ CrusBody
    \/ Exit

Spec == Init /\ [][Next]_vars

\* the flexion passes on a store whose direction tables were filled: by the
\* spine, thigh and crus passes, and for the torso either by the given rows or
\* not at all (the torso tables as its pass creates them)
DirectionStore(names, given) ==
    Bind(IngestedStore(FramesOf(names)), LAMBDA s0 :
    Bind(IF given THEN TorsoRowsGiven(s0) ELSE InitTables(s0, "MasseTorsoDB"), LAMBDA s1 :
    Bind(SpineCalculate(InitTables(s1, "SpineDirDB")).store, LAMBDA s2 :
    Bind(ThighCalculate(InitTables(s2, "ThighDirDB")).store, LAMBDA s3 :
        CrusCalculate(InitTables(s3, "CrusDirDB")).store))))

FlexClasses == {"ThighFlexionDB", "CrusFlexionDB"}
InitFlex ==
    /\ \E names \in [1..MaxPose -> FrameNames], given \in BOOLEAN :
          disk = DirectionStore(names, given)
    /\ Quiet

NextFlex ==
    \/ \E cls \in FlexClasses, reset \in BOOLEAN : Enter(cls, reset)
    \/ ThighFlexionBody
    \/ CrusFlexionBody
    \/ Exit

SpecFlex == InitFlex /\ [][NextFlex]_vars

\* the store classes that share one file: ingestion and the spine pass, opened
\* on a store the spine pass has filled and from which one table may have been
\* lost
DropTable(store, t) == IF t = "none" THEN store ELSE [store EXCEPT !.tab[t] = NoTable]
LostTables == {"none", "PoseRect", "MasseSpineVec", "MasseSpineDir"}
StoreClasses == {"PoseDB", "SpineDirDB"}
InitStore ==
    /\ \E names \in [1..MaxPose -> FrameNames], lost \in LostTables :
          disk = DropTable(SpineCalculate(InitTables(IngestedStore(FramesOf(names)),
                                                     "SpineDirDB")).store, lost)
    /\ Quiet

NextStore ==
    \/ \E cls \in StoreClasses, reset \in BOOLEAN : Enter(cls, reset)
    \/ PoseBody
    \/ SpineBody
    \/ Exit

SpecStore == InitStore /\ [][NextStore]_vars

\* the torso and spine passes on a store whose frames were detected anew after
\* an earlier run of both passes: the direction and vector rows are those the
\* passes computed when every landmark of every frame qualified
EarlierRowsGiven(store) ==
    Bind(IngestedStore(FramesOf([p \in PoseIds(store) |-> "full"])), LAMBDA before :
        [TorsoRowsGiven(before) EXCEPT
           !.tab["Landmark"] = store.tab["Landmark"],
           !.tab["MasseSpineDir"] = [EmptyTable EXCEPT !.rows =
               {[poseId |-> r.poseId, x |-> r.v[1], y |-> r.v[2], z |-> r.v[3]] :
                    r \in SpineDirRows(before)}],
           !.tab["MasseSpineVec"] = [EmptyTable EXCEPT !.rows =
               {[poseId |-> r.poseId, dir |-> vec_serialize(r.v)] :
                    r \in SpineDirRows(before)}]])

StaleFrameNames == {"full", "nohip", "shoulders", "lowLH"}
InitStale ==
    /\ \E names \in [1..MaxPose -> StaleFrameNames] :
          disk = EarlierRowsGiven(IngestedStore(FramesOf(names)))
    /\ Quiet

NextStale ==
    \/ \E cls \in {"MasseTorsoDB", "SpineDirDB"}, reset \in BOOLEAN : Enter(cls, reset)
    \/ TorsoBody
    \/ SpineBody
    \/ Exit

SpecStale == InitStale /\ [][NextStale]_vars

\* the torso pass on frames whose four torso landmarks have a presence just
\* below or at TH_PRESENCE, each on its own
PresenceSamples == {TH_PRESENCE - 1, TH_PRESENCE}
PresenceFrame(q) ==
    [BaseFrame EXCEPT !.psLS = q[1], !.psRS = q[2], !.psLH = q[3], !.psRH = q[4]]
InitTier ==
    /\ \E qs \in [1..MaxPose -> [1..4 -> PresenceSamples]] :
          disk = IngestedStore([p \in 1..MaxPose |-> PresenceFrame(qs[p])])
    /\ Quiet

NextTier ==
    \/ \E reset \in BOOLEAN : Enter("MasseTorsoDB", reset)
    \/ TorsoBody
    \/ Exit

SpecTier == InitTier /\ [][NextTier]_vars

\* opening stores an earlier run of every pass left: the Landmark table in
\* either layout (desc/posedb.py's, or the one make_pose_db.py's INSERT of eight
\* values fits), ThighFlexion as its pass filled it or with NULL in its
\* nullable angleRad column, one table possibly lost
OpenedStore(names, layout, nulls, lost) ==
    Bind(DirectionStore(names, TRUE), LAMBDA s0 :
    Bind(ThighFlexionCalculate(InitTables(s0, "ThighFlexionDB")).store, LAMBDA s1 :
        DropTable([s1 EXCEPT
                     !.tab["Landmark"].cols = (layout = "presence"),
                     !.tab["ThighFlexion"].rows =
                         IF nulls THEN {[r EXCEPT !.angleRad = NULL] : r \in @} ELSE @],
                  lost)))

OpenClasses == {"PoseDB", "ThighFlexionDB"}
OpenLostTables == {"none", "File", "PoseRect", "ThighFlexion"}
InitOpen ==
    /\ \E names \in [1..MaxPose -> FrameNames], layout \in LandmarkLayouts,
          nulls \in BOOLEAN, lost \in OpenLostTables :
          disk = OpenedStore(names, layout, nulls, lost)
    /\ Quiet

NextOpen == \E cls \in OpenClasses, reset \in BOOLEAN : Enter(cls, reset)

SpecOpen == InitOpen /\ [][NextOpen]_vars

\* the reliability passes and the torso pass on an ingested store that has no
\* Reliability table yet
ScoreClasses == {"ReliabilityDB", "reliabilitydb.ReliabilityDB", "MasseTorsoDB"}
InitScore ==
    /\ \E names \in [1..MaxPose -> DirFrameNames] :
          disk = DropTable(IngestedStore(FramesOf(names)), "Reliability")
    /\ Quiet

NextScore ==
    \/ \E cls \in ScoreClasses, reset \in BOOLEAN : Enter(cls, reset)
    \/ ReliabilityBody
    \/ ReliabilityBody_calc
    \/ TorsoBody
    \/ Exit

SpecScore == InitScore /\ [][NextScore]_vars

\* file registration on a store that holds no file yet
InitFile ==
    /\ disk = IngestedStore(<<>>)
    /\ Quiet

NextFile ==
    \/ \E reset \in BOOLEAN : Enter("PoseDB", reset)
    \/ RegisterImage
    \/ RegisterDone
    \/ Exit

SpecFile == InitFile /\ [][NextFile]_vars

\* Db.__exit__ called once more after it has committed and closed the
\* connection: self.conn still refers to the closed connection, so
\* check_validity's conn.cursor() (no exception given) or self.conn.commit()
\* (an exception given) raises sqlite3.ProgrammingError
ExitAgain ==
    /\ pc = "idle"
    /\ last.cls # "none" /\ last.committed
    /\ exc' = "ProgrammingError"
    /\ last' = [last EXCEPT !.how = "again"]
    /\ UNCHANGED <<disk, work, pc, cur, txn, fk, pre, batch, done, orch, codec, pool, conv>>

\* the spine pass opened and closed, and closed once more
InitClose ==
    /\ \E names \in [1..MaxPose -> FrameNames], lost \in LostTables :
          disk = DropTable(SpineCalculate(InitTables(IngestedStore(FramesOf(names)),
                                                     "SpineDirDB")).store, lost)
    /\ Quiet

NextClose ==
    \/ \E reset \in BOOLEAN : Enter("SpineDirDB", reset)
    \/ SpineBody
    \/ Exit
    \/ ExitAgain

SpecClose == InitClose /\ [][NextClose]_vars

\* the two reliability passes on an ingested store of either layout
RelClasses == {"ReliabilityDB", "reliabilitydb.ReliabilityDB"}
InitRel ==
    /\ \E layout \in LandmarkLayouts, names \in [1..MaxPose -> RelProfileNames],
          given \in BOOLEAN :
          disk = RelStore(layout, names, given)
    /\ Quiet

NextRel ==
    \/ \E cls \in RelClasses, reset \in BOOLEAN : Enter(cls, reset)
    \/ ReliabilityBody
    \/ ReliabilityBody_calc
    \/ Exit

SpecRel == InitRel /\ [][NextRel]_vars

\* ------------------------------------------- ingestion with its worker pool
\* process() of make_pose_db step by step.  `pool` holds the paths still to
\* register (todo), the tasks in the order submitted, the executor's queue,
\* the tasks running in worker processes, the finished tasks in the order
\* they completed with their results, and how many of them the as_completed
\* loop has taken; `actor` is the process that made the last step.
Orderings(S) ==
    {q \in SeqsUpTo(S, Cardinality(S)) : \A i, j \in 1..Len(q) : i # j => q[i] # q[j]}
EstimateOutcomes == {"EstimateFailed", "no person", "one person"}

\* the scan of target_dir and ProcessPoolExecutor(max_workers)
PoolOpen ==
    /\ pc = "body" /\ cur.cls = "PoseDB"
    /\ pool.at \in {"none", "closed"}
    /\ \E paths \in Orderings(ImagePaths), w \in 1..MaxWorkers :
          pool' = [NoPool EXCEPT !.at = "submit", !.actor = "main", !.max_workers = w,
                                 !.todo = paths]
    /\ UNCHANGED <<disk, work, pc, cur, exc, txn, fk, pre, last, batch, done, orch, codec, conv>>

\* one turn of the submission loop: register_imagefile, and executor.submit
\* when the file is new
Submit ==
    /\ pc = "body" /\ cur.cls = "PoseDB"
    /\ pool.at = "submit" /\ pool.todo # <<>>
    /\ \E s1 \in {RegisterFile(work, Head(pool.todo))} :
          /\ work' = s1
          /\ txn' = (txn \/ s1 # work)
          /\ pool' = IF s1 # work
                     THEN [pool EXCEPT !.actor = "main", !.todo = Tail(@),
                                       !.submitted = Append(@, Head(pool.todo)),
                                       !.queue = Append(@, Head(pool.todo))]
                     ELSE [pool EXCEPT !.actor = "main", !.todo = Tail(@)]
    /\ UNCHANGED <<disk, pc, cur, exc, fk, pre, last, batch, done, orch, codec, conv>>

\* the submission loop ends and the as_completed loop begins
SubmitDone ==
    /\ pc = "body" /\ cur.cls = "PoseDB"
    /\ pool.at = "submit" /\ pool.todo = <<>>
    /\ pool' = [pool EXCEPT !.at = "collect", !.actor = "main"]
    /\ UNCHANGED <<disk, work, pc, cur, exc, txn, fk, pre, last, batch, done, orch, codec, conv>>

\* a free worker process takes the oldest queued task
WorkerStart ==
    /\ pool.at \in {"submit", "collect"}
    /\ pool.queue # <<>>
    /\ Cardinality(pool.running) < pool.max_workers
    /\ pool' = [pool EXCEPT !.actor = "worker", !.queue = Tail(@),
                            !.running = @ \cup {Head(pool.queue)}]
    /\ UNCHANGED <<disk, work, pc, cur, exc, txn, fk, pre, last, batch, done, orch, codec, conv>>

\* what _estimate_proc does to the store while it estimates: it opens the
\* estimator and the image only
estimate_proc_WritesResult(store, path, outcome) ==
    IF outcome = "one person" THEN WriteFirstPerson(store, path) ELSE store
estimate_proc(store, path, outcome) == store

\* a worker process finishes _estimate_proc for its task
WorkerFinish(path, outcome) ==
    /\ pool.at \in {"submit", "collect"}
    /\ path \in pool.running
    /\ work' = estimate_proc(work, path, outcome)
    /\ pool' = [pool EXCEPT !.actor = "worker", !.running = @ \ {path},
                            !.completed = Append(@, path),
                            !.result = Append(@, outcome)]
    /\ UNCHANGED <<disk, pc, cur, exc, txn, fk, pre, last, batch, done, orch, codec, conv>>

\* one turn of the as_completed loop: future.result() and write_landmarks for
\* the persons found; EstimateFailed and any other exception are logged
Collect ==
    /\ pc = "body" /\ cur.cls = "PoseDB"
    /\ pool.at = "collect"
    /\ pool.taken < Len(pool.completed)
    /\ \E s1 \in {IF pool.result[pool.taken + 1] = "one person"
                  THEN WriteFirstPerson(work, pool.completed[pool.taken + 1])
                  ELSE work} :
          /\ work' = s1
          /\ txn' = (txn \/ s1 # work)
    /\ pool' = [pool EXCEPT !.actor = "main", !.taken = @ + 1]
    /\ UNCHANGED <<disk, pc, cur, exc, fk, pre, last, batch, done, orch, codec, conv>>

\* every future has been taken: the executor shuts down and db.commit() runs
PoolCommit ==
    /\ pc = "body" /\ cur.cls = "PoseDB"
    /\ pool.at = "collect"
    /\ pool.taken = Len(pool.submitted)
    /\ disk' = work
    /\ txn' = FALSE
    /\ exc' = "none"
    /\ batch' = {}
    /\ pc' = "exit"
    /\ pool' = [pool EXCEPT !.at = "closed", !.actor = "main"]
    /\ UNCHANGED <<work, cur, fk, pre, last, done, orch, codec, conv>>

InitIngest ==
    /\ disk = IngestedStore(FramesOf([p \in 1..MaxPose |-> "full"]))
    /\ Quiet

NextIngest ==
    \/ \E reset \in BOOLEAN : Enter("PoseDB", reset)
    \/ PoolOpen
    \/ Submit
    \/ SubmitDone
    \/ WorkerStart
    \/ \E path \in ImagePaths, outcome \in EstimateOutcomes : WorkerFinish(path, outcome)
    \/ Collect
    \/ PoolCommit
    \/ Exit

SpecIngest == InitIngest /\ [][NextIngest]_vars

\* ------------------------------------------------------- path conversion
\* common/wsl.py.  A POSIX path is the sequence of its parts as PurePosixPath
\* gives them ("/" first when absolute; "~" first when it begins with a
\* tilde).  A result is [kind, head, parts]: "drive" (head the drive letter),
\* "unc" (head the distro), "wslpath" (what wslpath -w printed for parts),
\* "posix" (the path as it is).
PathSamples ==
    {<<"/", "home", "user">>, <<"/", "mnt", "c", "Users", "test">>, <<"/", "mnt", "c">>,
     <<"/", "mnt", "E", "test_dir">>, <<"/", "mnt", "1", "Users">>,
     <<"/", "mnt", "ab", "Users">>, <<"/", "c", "Users">>, <<"/", "mnt">>, <<"/">>,
     <<"mnt", "c", "Users">>, <<"~", "mnt", "c">>}
\* str.upper() of the parts that are one alphabetic character
UpperOfLetter == [c |-> "C", E |-> "E"]
\* os.path.expanduser
HomeDir == <<"/", "home", "user">>
expanduser(parts) ==
    IF Len(parts) > 0 /\ parts[1] = "~" THEN HomeDir \o Tail(parts) ELSE parts
is_absolute(parts) == Len(parts) > 0 /\ parts[1] = "/"

\* what running wslpath can come to
WslpathOutcomes == {"not found", "failed", "failed with output", "printed"}
NoResult == [kind |-> "none", head |-> "", parts |-> <<>>]
Raise(e) == [kind |-> e, head |-> "", parts |-> <<>>]
run_wslpath(parts, outcome) ==
    IF outcome \in {"not found", "failed"} THEN Raise("PathConversionError")
    ELSE [kind |-> "wslpath", head |-> "", parts |-> parts]

\* the manual conversion without the test on the drive part
manual_mnt_drive_convert_AnyDrive(parts) ==
    IF Len(parts) = 0 \/ parts[1] # "/" THEN NoResult
    ELSE IF Len(parts) > 2 /\ parts[2] = "mnt"
    THEN [kind |-> "drive",
          head |-> IF parts[3] \in DOMAIN UpperOfLetter THEN UpperOfLetter[parts[3]]
                   ELSE parts[3],
          parts |-> SubSeq(parts, 4, Len(parts))]
    ELSE NoResult

manual_mnt_drive_convert(parts) ==
    IF Len(parts) = 0 \/ parts[1] # "/" THEN NoResult
    ELSE IF Len(parts) > 2 /\ parts[2] = "mnt"
    THEN IF parts[3] \notin DOMAIN UpperOfLetter THEN NoResult
         ELSE [kind |-> "drive", head |-> UpperOfLetter[parts[3]],
               parts |-> SubSeq(parts, 4, Len(parts))]
    ELSE NoResult

\* distro: the value of WSL_DISTRO_NAME, "" when it is not set
wsl_unc_fallback(parts, distro) ==
    IF distro = "" \/ ~is_absolute(parts) THEN NoResult
    ELSE [kind |-> "unc", head |-> distro, parts |-> Tail(parts)]

posix_to_windows(path, strict, allow_unc_fallback, in_wsl, outcome, distro) ==
    LET path_str == expanduser(path)
        w == run_wslpath(path_str, outcome)
        manual == manual_mnt_drive_convert(path_str)
        unc == wsl_unc_fallback(path_str, distro)
    IN  IF in_wsl /\ w.kind = "wslpath" THEN w
        ELSE IF in_wsl /\ is_absolute(path_str) /\ manual # NoResult THEN manual
        ELSE IF in_wsl /\ allow_unc_fallback /\ is_absolute(path_str) /\ unc # NoResult
        THEN unc
        ELSE IF in_wsl /\ strict THEN Raise("PathConversionError")
        ELSE [kind |-> "posix", head |-> "", parts |-> path_str]

Convert ==
    /\ conv.at = "called"
    /\ conv' = [conv EXCEPT !.at = "returned",
                  !.out = posix_to_windows(conv.path, conv.strict, conv.allow_unc_fallback,
                                           conv.in_wsl, conv.wslpath, conv.distro)]
    /\ UNCHANGED <<disk, work, pc, cur, exc, txn, fk, pre, last, batch, done, orch, codec, pool>>

InitWsl ==
    /\ disk = IngestedStore(FramesOf([p \in 1..MaxPose |-> "full"]))
    /\ work = disk
    /\ pc = "idle"
    /\ cur = Nobody
    /\ exc = "none"
    /\ txn = FALSE
    /\ fk = FALSE
    /\ pre = disk
    /\ last = NoRun
    /\ batch = {}
    /\ done = {}
    /\ orch = NoOrch
    /\ codec = NoCodec
    /\ pool = NoPool
    /\ \E path \in PathSamples, strict, allow, in_wsl \in BOOLEAN,
          outcome \in WslpathOutcomes, distro \in {"", "Ubuntu"} :
          conv = [at |-> "called", path |-> path, strict |-> strict,
                  allow_unc_fallback |-> allow, in_wsl |-> in_wsl, wslpath |-> outcome,
                  distro |-> distro, out |-> NoResult]

NextWsl == Convert

SpecWsl == InitWsl /\ [][NextWsl]_vars

\* the codec applied to a vector: serialize, then deserialize
Serialize ==
    /\ codec.at = "vector"
    /\ codec' = [codec EXCEPT !.at = "packed", !.bytes = vec_serialize(codec.v)]
    /\ UNCHANGED <<disk, work, pc, cur, exc, txn, fk, pre, last, batch, done, orch, pool, conv>>
Deserialize ==
    /\ codec.at = "packed"
    /\ codec' = [codec EXCEPT !.at = "unpacked", !.out = vec_deserialize(codec.bytes)]
    /\ UNCHANGED <<disk, work, pc, cur, exc, txn, fk, pre, last, batch, done, orch, pool, conv>>

InitCodec ==
    /\ disk = IngestedStore(FramesOf([p \in 1..MaxPose |-> "full"]))
    /\ work = disk
    /\ pc = "idle"
    /\ cur = Nobody
    /\ exc = "none"
    /\ txn = FALSE
    /\ fk = FALSE
    /\ pre = disk
    /\ last = NoRun
    /\ batch = {}
    /\ done = {}
    /\ orch = NoOrch
    /\ pool = NoPool
    /\ conv = NoConv
    /\ \E v \in SeqsUpTo(FloatSamples, MaxLen) :
          codec = [at |-> "vector", v |-> v, bytes |-> <<>>, out |-> <<>>]

NextCodec ==
    \/ Serialize
    \/ Deserialize

SpecCodec == InitCodec /\ [][NextCodec]_vars

\* ------------------------------------------- the direction tables' constraints
\* What the declared schema lets into a direction table: the NOT NULL and CHECK
\* constraints on x, y, z of each CREATE TABLE (a nan binds as NULL).
TorsoDirCheck(v) == UnitBand(v)
SpineDirCheck(v) == UnitBand(v)
\* MasseThighDir declares x, y, z NOT NULL and no CHECK on their length
ThighDirCheck(v) == ~IsNaNVec(v)
\* desc/crus_dir.py is not in the source tree: the band the specification requires
CrusDirCheck(v) == UnitBand(v)
DirCheck(t, v) ==
    CASE t = "MasseTorsoDir" -> TorsoDirCheck(v)
      [] t = "MasseSpineDir" -> SpineDirCheck(v)
      [] t = "MasseThighDir" -> ThighDirCheck(v)
      [] t = "MasseCrusDir" -> CrusDirCheck(v)

\* vectors a writer may hand to the store: unit length, half length, nan
ProbeVectors == {Vec(0, 0, SCALE), Vec(SCALE \div 2, 0, 0), Vec(NaN, NaN, NaN)}

\* the row of table t for the first frame with direction v
ProbeRow(t, is_right, v) ==
    IF t = "MasseTorsoDir"
    THEN [poseId |-> 1, x |-> v[1], y |-> v[2], z |-> v[3], method |-> "4pt", score |-> SCALE,
          yaw_x |-> 0, yaw_z |-> SCALE, pitch |-> 0]
    ELSE IF t = "MasseSpineDir" THEN [poseId |-> 1, x |-> v[1], y |-> v[2], z |-> v[3]]
    ELSE [poseId |-> 1, is_right |-> is_right, x |-> v[1], y |-> v[2], z |-> v[3]]

\* INSERT OR REPLACE of one direction row on an open connection in autocommit:
\* the store applies the table's constraints and keeps or rejects the row
DirectInsert(t, is_right, v) ==
    /\ pc = "idle"
    /\ LET row == ProbeRow(t, is_right, v)
           kept == {r \in disk.tab[t].rows :
                      ~(r.poseId = row.poseId /\
                        ("is_right" \in DOMAIN r => r.is_right = is_right))}
           after == IF DirCheck(t, v) THEN SetRows(disk, t, kept \cup {row}) ELSE disk
       IN  /\ disk' = after
           /\ work' = after
           /\ batch' = {[table |-> t, v |-> v, accepted |-> DirCheck(t, v)]}
    /\ UNCHANGED <<pc, cur, exc, txn, fk, pre, last, done, orch, codec, pool, conv>>

InitSchema ==
    /\ disk = DirectionStore([p \in 1..MaxPose |-> "full"], FALSE)
    /\ Quiet

NextSchema ==
    \E t \in {"MasseTorsoDir", "MasseSpineDir", "MasseThighDir", "MasseCrusDir"},
       is_right \in {0, 1}, v \in ProbeVectors :
        DirectInsert(t, is_right, v)

SpecSchema == InitSchema /\ [][NextSchema]_vars

\* ------------------------------------------------------------ orchestrator
\* build_modules() with the tagging stage moved to the end
build_modules_TagLast ==
    <<"Pose Estimate", "Reliability", "TorsoDir", "SpineDir", "ThighDir", "ThighFlex", "Tag">>

\* build_modules(): the stages in list order, and the one whose result is checked
build_modules ==
    <<"Pose Estimate", "Reliability", "TorsoDir", "Tag", "SpineDir", "ThighDir", "ThighFlex">>
check_result(name) == name = "Pose Estimate"

\* what process() of make_pose_db returns before it opens the store: False for
\* a missing model file, a reset the user does not confirm, a missing database
\* file without reset, or a worker count that is not positive
IngestRefused(args) ==
    \/ ~args.model_exists
    \/ args.init_db /\ ~args.confirm
    \/ ~args.init_db /\ ~args.db_exists
    \/ args.max_workers <= 0

\* the ways process() of a stage can end: it returns (True, or None which is
\* false), or an exception leaves it
Outcomes(name, args) ==
    IF name = "Pose Estimate"
    THEN IF IngestRefused(args) THEN {"false"} ELSE {"true", "raise"}
    ELSE {"false", "raise"}

\* ModuleTask.run with check_result ignored
ModuleTask_run_Unchecked(name, outcome) == outcome # "raise"

\* ModuleTask.run: False when process() raised, or returned a false result
\* while check_result is set
ModuleTask_run(name, outcome) ==
    IF outcome = "raise" THEN FALSE
    ELSE IF check_result(name) /\ outcome = "false" THEN FALSE
    ELSE TRUE

\* main(): the loop calls module.run for the next stage ...
StageStart ==
    /\ orch.code = "running"
    /\ Len(orch.started) = Len(orch.results)
    /\ Len(orch.started) < Len(build_modules)
    /\ orch' = [orch EXCEPT !.started = Append(@, build_modules[Len(@) + 1])]
    /\ UNCHANGED <<disk, work, pc, cur, exc, txn, fk, pre, last, batch, done, codec, pool, conv>>

\* ... and exit(1) follows a False; the process ends with code 0 after the last stage
StageEnd ==
    /\ orch.code = "running"
    /\ Len(orch.started) = Len(orch.results) + 1
    /\ \E outcome \in Outcomes(orch.started[Len(orch.started)], orch.args) :
          \E ok \in {ModuleTask_run(orch.started[Len(orch.started)], outcome)} :
             orch' = [orch EXCEPT
                        !.results = Append(@, ok),
                        !.code = IF ~ok THEN "1"
                                 ELSE IF Len(orch.started) = Len(build_modules) THEN "0"
                                 ELSE "running"]
    /\ UNCHANGED <<disk, work, pc, cur, exc, txn, fk, pre, last, batch, done, codec, pool, conv>>

InitOrch ==
    /\ disk = IngestedStore(FramesOf([p \in 1..MaxPose |-> "full"]))
    /\ work = disk
    /\ pc = "idle"
    /\ cur = Nobody
    /\ exc = "none"
    /\ txn = FALSE
    /\ fk = FALSE
    /\ pre = disk
    /\ last = NoRun
    /\ batch = {}
    /\ done = {}
    /\ codec = NoCodec
    /\ pool = NoPool
    /\ conv = NoConv
    /\ \E m, i, c, d \in BOOLEAN, w \in 0..MaxWorkers :
          orch = [args |-> [model_exists |-> m, init_db |-> i, confirm |-> c, db_exists |-> d,
                            max_workers |-> w],
                  started |-> <<>>, results |-> <<>>, code |-> "running"]

NextOrch ==
    \/ StageStart
    \/ StageEnd

SpecOrch == InitOrch /\ [][NextOrch]_vars

\* ======================================================================
\* Claims checked under Spec (the direction engine)
\* ======================================================================
DirectionTables ==
    {"MasseTorsoDir", "MasseTorsoVec", "MasseSpineDir", "MasseSpineVec",
     "MasseThighDir", "MasseThighVec", "MasseCrusDir", "MasseCrusVec"}
Sided(cls) == cls \in {"ThighDirDB", "CrusDirDB"}
KeysOf(rows, cls) ==
    IF Sided(cls) THEN {<<r.poseId, r.is_right>> : r \in rows}
    ELSE {<<r.poseId>> : r \in rows}

\* a stage has been closed (the last thing that happened is its __exit__)
Closed(cls) == pc = "idle" /\ last.cls = cls /\ last.how # "raised"

\* C2: if a pass raises inside an open store, none of the writes it made before
\* the error are committed: after the close every table holds the rows it held
\* when the pass was opened.
C2_RaisingPassCommitsNothing ==
    \A cls \in Classes :
        (Closed(cls) /\ last.how = "valid" /\ last.exc # "none" /\ last.closechk = "none")
            => \A t \in TableNames : disk.tab[t].rows = pre.tab[t].rows

\* C4: after every completed direction pass, the pass's vector-index table
\* holds exactly the keys of its direction table (frame for torso and spine,
\* (frame, side) for thigh and crus).
C4_VectorKeysEqualDirectionKeys ==
    \A cls \in DirClasses :
        (Closed(cls) /\ last.exc = "none")
            => KeysOf(disk.tab[Table_Def(cls)[2]].rows, cls)
                 = KeysOf(disk.tab[Table_Def(cls)[1]].rows, cls)

\* C6: running a direction pass twice in a row on unchanged landmarks (the
\* second run right after the first, with the same reset option) leaves every
\* direction table and every vector-index table with the rows it had after the
\* first run.
C6_SecondRunLeavesSameRows ==
    \A cls \in DirClasses :
        (Closed(cls) /\ last.same)
            => \A t \in DirectionTables : disk.tab[t].rows = pre.tab[t].rows
C6_Witness ==
    /\ Closed("ThighDirDB") /\ last.same /\ last.exc = "none"
    /\ disk.tab["MasseThighDir"].rows # {}
    /\ disk.tab["MasseThighVec"].rows # {}

\* frame p qualifies on both shoulders and on exactly one hip
OneHipLowered(store, p) ==
    /\ Cardinality({r \in store.tab["Landmark"].rows : r.poseId = p}) = BLAZEPOSE_LANDMARK_LEN
    /\ TorsoPresence(store, p).LS /\ TorsoPresence(store, p).RS
    /\ TorsoPresence(store, p).LH # TorsoPresence(store, p).RH
\* the sub-case of the surviving triple and the normalized cross product of
\* its three points
DirectThreePoint(store, p) ==
    LET P == TorsoPositions(store, p)
    IN  IF TorsoPresence(store, p).LH
        THEN [method |-> "3pt: A", v |-> NormalizeInt(Cross(Sub(P.LH, P.LS), Sub(P.RS, P.LS)))]
        ELSE [method |-> "3pt: B", v |-> NormalizeInt(Cross(Sub(P.LS, P.RS), Sub(P.RH, P.RS)))]
\* the torso pass has gone through every frame and reached its INSERT
TorsoScanned ==
    pc = "exit" /\ cur.cls = "MasseTorsoDB" /\ exc \notin {"AssertionError", "TypeError"}

C14_NoRaiseOnMissingOrDegenerateInput ==
    \A cls \in DirClasses :
        Closed(cls) => last.exc \notin {"AssertionError", "IntegrityError"}

\* every landmark of the frame has a row and its four torso landmarks qualify
FullFrame(store, p) ==
    /\ Cardinality({r \in store.tab["Landmark"].rows : r.poseId = p}) = BLAZEPOSE_LANDMARK_LEN
    /\ TorsoPresence(store, p).LS /\ TorsoPresence(store, p).RS
    /\ TorsoPresence(store, p).LH /\ TorsoPresence(store, p).RH

\* C21: for a frame with all four torso landmarks qualifying and every other
\* landmark present, each direction stage completes without error and leaves
\* exactly one row for the frame's key in each of its tables: one per frame in
\* the torso and spine direction and vector tables, one per side in the thigh
\* and crus direction and vector tables.
C21_FullFrameGetsOneRowPerTable ==
    \A cls \in DirClasses :
        Closed(cls) =>
            /\ (\E p \in PoseIds(disk) : FullFrame(disk, p)) => last.exc = "none"
            /\ \A p \in PoseIds(disk) :
                  FullFrame(disk, p) =>
                      \A t \in DeclaredTables(cls) :
                          Cardinality({r \in disk.tab[t].rows : r.poseId = p})
                              = IF Sided(cls) THEN 2 ELSE 1

\* ======================================================================
\* Claims checked under SpecFlex (the flexion passes)
\* ======================================================================
\* the close-time validation of the stage just closed found something
CloseFound == pc = "idle" /\ last.how # "raised" /\ last.closechk \notin {"none", "ok"}

\* C3: close() swallows a missing table only; a column mismatch
\* or a row type mismatch found by the close-time validation is raised from
\* close(), and then nothing is committed and the connection is not released:
\* the declared tables hold the rows they held when the store was opened (none
\* after a reset).
C3_CloseRaisesTypeMismatch ==
    CloseFound =>
        IF last.closechk = "VCFTableNotFound"
        THEN last.committed /\ last.exc = "none"
        ELSE /\ ~last.committed
             /\ last.exc = last.closechk
             /\ \A t \in DeclaredTables(last.cls) :
                   disk.tab[t].rows = IF last.how = "valid" THEN pre.tab[t].rows ELSE {}
C3_Witness ==
    /\ CloseFound
    /\ last.cls = "CrusFlexionDB"
    /\ last.closechk = "VCFInvalidRow"
    /\ disk.tab["CrusFlexion"].rows = {}
\* C3 as the specification words it: whatever the close-time validation finds, close() does not
\* raise and the pending writes are committed
C3_AsStated == CloseFound => (last.committed /\ last.exc = "none")

\* C5: each flexion pass run again on unchanged direction rows succeeds and
\* leaves exactly one row per (frame, side), equal to the row the first run
\* wrote.
C5_SecondFlexionRunSucceeds ==
    \A cls \in FlexClasses :
        (Closed(cls) /\ last.again /\ last.how = "valid")
            => /\ last.exc = "none"
               /\ disk.tab[Table_Def(cls)[1]].rows = pre.tab[Table_Def(cls)[1]].rows
               /\ \A r, q \in disk.tab[Table_Def(cls)[1]].rows :
                     (r.poseId = q.poseId /\ r.is_right = q.is_right) => r = q

\* arccos of a dot product clamped to [-1, 1]
ClampedACos(d) ==
    ACos(IF d > SCALE * SCALE THEN SCALE * SCALE
         ELSE IF d < 0 - SCALE * SCALE THEN 0 - SCALE * SCALE ELSE d)

\* C11: every ThighFlexion row stores dot(torso, thigh) and dot(thigh, spine)
\* of its frame and side, and its angle is arccos of the clamped
\* dot(torso, thigh), taken positive when dot(thigh, spine) is negative and
\* negative when dot(thigh, spine) is not negative.
C11_ThighAngleSignFromSpineDot ==
    \A r \in disk.tab["ThighFlexion"].rows :
        \E mtd \in disk.tab["MasseTorsoDir"].rows, mth \in disk.tab["MasseThighDir"].rows,
           msd \in disk.tab["MasseSpineDir"].rows :
            /\ mtd.poseId = r.poseId /\ msd.poseId = r.poseId
            /\ mth.poseId = r.poseId /\ mth.is_right = r.is_right
            /\ r.dotBody = Dot(RowVec(mtd), RowVec(mth))
            /\ r.dotSpine = Dot(RowVec(mth), RowVec(msd))
            /\ r.angleRad = IF r.dotSpine < 0 THEN ClampedACos(r.dotBody)
                            ELSE 0 - ClampedACos(r.dotBody)
            /\ r.dotSpine < 0 => r.angleRad >= 0
            /\ r.dotSpine >= 0 => r.angleRad <= 0
C11_Witness ==
    /\ \E r \in disk.tab["ThighFlexion"].rows : r.dotSpine < 0 /\ r.angleRad > 0
    /\ \E r \in disk.tab["ThighFlexion"].rows : r.dotSpine >= 0 /\ r.angleRad < 0

\* C12: after a flexion pass every CrusFlexion row holds an angle in [0, pi]
\* and every ThighFlexion row an angle in [-pi, pi], also when a dot product of
\* two stored direction vectors falls outside [-1, 1]: the pass then ends
\* without an error and the row of that (frame, side) holds an angle, not a
\* missing value.
C12_FlexionAnglesInDomain ==
    /\ Closed("CrusFlexionDB") =>
          /\ last.exc = "none"
          /\ \A t \in disk.tab["MasseThighDir"].rows, c \in disk.tab["MasseCrusDir"].rows :
                (t.poseId = c.poseId /\ t.is_right = c.is_right) =>
                    \E r \in disk.tab["CrusFlexion"].rows :
                        /\ r.poseId = t.poseId /\ r.is_right = t.is_right
                        /\ r.angleRad # NULL /\ r.angleRad >= 0 /\ r.angleRad <= PiMilli
    /\ (Closed("ThighFlexionDB") /\ ~last.again) =>
          /\ last.exc = "none"
          /\ \A r \in disk.tab["ThighFlexion"].rows :
                r.angleRad # NULL /\ r.angleRad >= 0 - PiMilli /\ r.angleRad <= PiMilli

\* ======================================================================
\* Claims checked under SpecStore (opening, repairing and re-initialising)
\* ======================================================================
ExactlyOneMissing(store, cls) ==
    Cardinality({t \in DeclaredTables(cls) : ~store.tab[t].exists}) = 1
\* the open of the running stage repaired the store
Repaired == pc = "body" /\ cur.how = "repair"
SeedOf(t) == IF t = "LandmarkName" THEN SeedRows ELSE {}

C7_DerivedRowsReferToFrames ==
    \A t \in DerivedTables : \A r \in disk.tab[t].rows : r.poseId \in PoseIds(disk)

\* C18: after every successful open (new file, reset, repair or validated
\* store) foreign-key enforcement is active on the connection while the pass
\* runs, also when the open inserted seed rows.
C18_ForeignKeysActiveAfterOpen ==
    pc \in {"body", "exit"} => fk

\* the frame rows the ingestion that closed last has added
NewFrames ==
    IF last.how = "valid" THEN disk.tab["Pose"].rows \ pre.tab["Pose"].rows
    ELSE disk.tab["Pose"].rows

\* C29: after the ingestion stage has committed, every frame row it added has
\* exactly one Landmark row for each index of the landmark vocabulary and
\* exactly one bounding-box row: a person whose write failed part-way has left
\* no frame row.
C29_IngestedFrameIsComplete ==
    (Closed("PoseDB") /\ last.committed) =>
        \A po \in NewFrames :
            /\ \A i \in 0..(COCO_LANDMARK_LEN - 1) :
                  Cardinality({r \in disk.tab["Landmark"].rows :
                                  r.poseId = po.id /\ r.landmarkIndex = i}) = 1
            /\ Cardinality({r \in disk.tab["PoseRect"].rows : r.poseId = po.id}) = 1

\* ======================================================================
\* Claims checked under SpecClose (closing a store twice)
\* ======================================================================
\* C22: closing a store that has already been closed raises no error and
\* leaves the store as the first close left it.
C22_SecondCloseIsSilent ==
    last.how = "again" => (exc = "none" /\ disk = work)

\* ======================================================================
\* Claims checked under SpecSchema (the constraints of the direction tables)
\* ======================================================================
\* C13: every direction table rejects a row whose x^2 + y^2 + z^2 lies outside
\* [0.995, 1.005], so every row of every direction table is within the band.
C13_DirectionTablesRejectOutOfBand ==
    /\ \A a \in batch : ~UnitBand(a.v) => ~a.accepted
    /\ \A t \in {"MasseTorsoDir", "MasseSpineDir", "MasseThighDir", "MasseCrusDir"} :
          \A r \in disk.tab[t].rows : UnitBand(RowVec(r))

\* ======================================================================
\* Claims checked under SpecRel (the reliability passes)
\* ======================================================================
\* the column and the regions a reliability class reads
ColumnRead(cls) == IF cls = "ReliabilityDB" THEN "confidence" ELSE "presence"
RegionsRead(cls) == IF cls = "ReliabilityDB" THEN CocoRegions ELSE BlazeRegions
Readable(store, cls) == LandmarkColumn(store) = ColumnRead(cls)
\* the frames that have a landmark row of the region
FramesWith(store, idx) ==
    {p \in PoseIds(store) :
        \E r \in store.tab["Landmark"].rows : r.poseId = p /\ r.landmarkIndex \in idx}
\* the three grouped aggregates list the same frames
Aligned(store, cls) ==
    /\ FramesWith(store, RegionsRead(cls).face) = FramesWith(store, RegionsRead(cls).left)
    /\ FramesWith(store, RegionsRead(cls).left) = FramesWith(store, RegionsRead(cls).right)
ReliabilityKeys(store) == {r.poseId : r \in store.tab["Reliability"].rows}

\* C15: a frame that has no face-region landmark row is left out of the
\* reliability pass: the pass does not abort on it, it leaves no Reliability
\* row for that frame, and it writes the row of every frame that has rows of
\* all three regions.
C15_FaceLessFrameIsSkipped ==
    \A cls \in RelClasses :
        (Closed(cls) /\ Readable(disk, cls)) =>
            /\ last.exc # "AssertionError"
            /\ \A p \in PoseIds(disk) :
                  /\ p \notin FramesWith(disk, RegionsRead(cls).face)
                        => p \notin ReliabilityKeys(disk)
                  /\ (/\ p \in FramesWith(disk, RegionsRead(cls).face)
                      /\ p \in FramesWith(disk, RegionsRead(cls).left)
                      /\ p \in FramesWith(disk, RegionsRead(cls).right))
                        => p \in ReliabilityKeys(disk)

C17_ReliabilityRerunLeavesSameRows ==
    \A cls \in RelClasses :
        (Closed(cls) /\ Readable(disk, cls) /\ Aligned(disk, cls)) =>
            /\ last.exc = "none"
            /\ ReliabilityKeys(disk) = FramesWith(disk, RegionsRead(cls).face)
            /\ Cardinality(disk.tab["Reliability"].rows) = Cardinality(ReliabilityKeys(disk))
            /\ (last.same /\ last.how = "valid") =>
                  disk.tab["Reliability"].rows = pre.tab["Reliability"].rows

\* the subsets the scorer is to average over, by vocabulary: the face prefix,
\* the left limb (shoulder, elbow, hip, knee) and its mirror
SubsetsOf(cls) ==
    IF cls = "ReliabilityDB"
    THEN [face |-> 0..4, left |-> {5, 7, 11, 13}, right |-> {6, 8, 12, 14}]
    ELSE [face |-> 0..10, left |-> {11, 13, 23, 25}, right |-> {12, 14, 24, 26}]
\* the mean of the squared confidence over the rows frame p has in a subset
SubsetScore(store, cls, p, idx) ==
    AvgSq({r \in store.tab["Landmark"].rows : r.poseId = p /\ r.landmarkIndex \in idx},
          ColumnRead(cls))

\* C27: the row the scorer writes for a frame holds, as torso_half_min, the
\* smaller of the means of squared confidence over the frame's left-limb
\* landmarks {shoulder, elbow, hip, knee} and over their mirror, and as
\* face_detect the mean over the face prefix; both lie within [0, 1].
C27_ScoresAreSubsetMeans ==
    \A cls \in RelClasses :
        (Closed(cls) /\ Readable(disk, cls) /\ last.exc = "none") =>
            \A r \in disk.tab["Reliability"].rows :
                r.poseId \in PoseIds(disk) =>
                    /\ r.torsoHalfMin =
                          Min({SubsetScore(disk, cls, r.poseId, SubsetsOf(cls).left),
                               SubsetScore(disk, cls, r.poseId, SubsetsOf(cls).right)})
                    /\ r.faceDetect = SubsetScore(disk, cls, r.poseId, SubsetsOf(cls).face)
                    /\ r.torsoHalfMin >= 0 /\ r.torsoHalfMin <= SCALE
                    /\ r.faceDetect >= 0 /\ r.faceDetect <= SCALE

\* ======================================================================
\* Claims checked under SpecCodec (the vector codec)
\* ======================================================================
\* a double that rounds to a finite single
InSingleRange(x) ==
    RoundDiv(x, F32Quantum) < Byte * Byte * Byte /\ 0 - RoundDiv(x, F32Quantum) < Byte * Byte * Byte
\* y is x to within half a quantum of single precision
WithinSingle(x, y) == 2 * (x - y) <= F32Quantum /\ 2 * (y - x) <= F32Quantum

\* C19: for every vector of finite floats whose elements lie in the range of
\* single precision, decoding its encoding succeeds and gives a vector of the
\* same length whose elements are those of the vector to single precision, in
\* the same order; the encoding has four bytes an element.  An element beyond
\* the range comes back as an infinity of its sign.
C19_CodecRoundTrip ==
    /\ codec.at \in {"packed", "unpacked"} => Len(codec.bytes) = 4 * Len(codec.v)
    /\ codec.at = "unpacked" =>
          /\ Len(codec.out) = Len(codec.v)
          /\ \A i \in 1..Len(codec.v) :
                IF InSingleRange(codec.v[i]) THEN WithinSingle(codec.v[i], codec.out[i])
                ELSE codec.out[i] = (IF codec.v[i] < 0 THEN 0 - Inf ELSE Inf)
C19_Witness ==
    /\ codec.at = "unpacked"
    /\ codec.v = <<SCALE, 0 - 3140, 100500>>
    /\ codec.out = <<SCALE, 0 - 3140, 100500>>
\* C19 for every vector of finite floats: each decoded element is the
\* vector's element to within single-precision error
C19_AsStated ==
    codec.at = "unpacked" =>
        /\ Len(codec.out) = Len(codec.v)
        /\ \A i \in 1..Len(codec.v) : WithinSingle(codec.v[i], codec.out[i])

\* ======================================================================
\* Claims checked under SpecIngest (ingestion with its worker pool)
\* ======================================================================
\* C20: while the ingestion runs, a step that changes the store (the
\* connection's content or the committed content) is a step of the main
\* process, which registers the files and collects the workers' results; a
\* worker's step leaves the store as it is, and no step takes more than one
\* result, in whatever order the workers complete.
C20_OnlyTheConsumerWritesTheStore ==
    [][pool.at \in {"submit", "collect"} =>
          /\ (work' # work \/ disk' # disk) => pool'.actor = "main"
          /\ pool'.actor = "worker" => (work' = work /\ disk' = disk /\ pool'.taken = pool.taken)
          /\ pool'.taken \in {pool.taken, pool.taken + 1}]_vars
\* two workers completed in the reverse of the submission order, and the
\* consumer has taken both results and written a frame for each
C20_Witness ==
    /\ pool.at = "collect"
    /\ Len(pool.submitted) = 2
    /\ pool.completed = <<pool.submitted[2], pool.submitted[1]>>
    /\ pool.result = <<"one person", "one person">>
    /\ pool.taken = 2
    /\ Cardinality(work.tab["Pose"].rows) = 2

\* ======================================================================
\* Claims checked under SpecWsl (path conversion)
\* ======================================================================
\* the path is absolute, under /mnt, and its drive part is a single letter
UnderMntDrive(parts) ==
    Len(parts) >= 3 /\ parts[1] = "/" /\ parts[2] = "mnt" /\ parts[3] \in {"c", "E"}
WslpathPrints(outcome) == outcome \in {"failed with output", "printed"}
\* what the call comes to when the path handed on is `given`
ConversionOf(given) ==
    IF ~conv.in_wsl THEN [kind |-> "posix", head |-> "", parts |-> given]
    ELSE IF WslpathPrints(conv.wslpath) THEN [kind |-> "wslpath", head |-> "", parts |-> given]
    ELSE IF UnderMntDrive(given)
    THEN [kind |-> "drive", head |-> IF given[3] = "c" THEN "C" ELSE "E",
          parts |-> SubSeq(given, 4, Len(given))]
    ELSE IF conv.allow_unc_fallback /\ given[1] = "/" /\ conv.distro # ""
    THEN [kind |-> "unc", head |-> conv.distro, parts |-> Tail(given)]
    ELSE IF conv.strict THEN Raise("PathConversionError")
    ELSE [kind |-> "posix", head |-> "", parts |-> given]

SpineComputed(store) == {p \in PoseIds(store) : SpineDirOf(store, p) # {}}
TorsoComputed(store) ==
    {p \in PoseIds(store) : \E e \in TorsoScan(store, p).entry : TorsoRowOk(e)}

\* C24: after a torso (spine) pass that raised nothing a frame has a torso (spine) direction row
\* and vector row only if the pass computed a direction for it: a row of an
\* earlier pass for a frame that is now Unavailable is gone.
C24_PassReplacesItsOutput ==
    /\ (Closed("SpineDirDB") /\ last.exc = "none") =>
          \A t \in {"MasseSpineDir", "MasseSpineVec"} :
              {r.poseId : r \in disk.tab[t].rows} \subseteq SpineComputed(disk)
    /\ (Closed("MasseTorsoDB") /\ last.exc = "none") =>
          \A t \in {"MasseTorsoDir", "MasseTorsoVec"} :
              {r.poseId : r \in disk.tab[t].rows} \subseteq TorsoComputed(disk)

\* ======================================================================
\* Claims checked under SpecTier (the torso tiers)
\* ======================================================================
\* the landmark of frame p at index i qualifies
Qualifies(store, p, i) ==
    \E r \in store.tab["Landmark"].rows :
        r.poseId = p /\ r.landmarkIndex = i /\ r.presence >= 9
\* the first tier that qualifies, in the fixed order
FirstTier(store, p) ==
    LET LS == Qualifies(store, p, 11)
        RS == Qualifies(store, p, 12)
        LH == Qualifies(store, p, 23)
        RH == Qualifies(store, p, 24)
    IN  IF LS /\ RS /\ LH /\ RH THEN "4pt"
        ELSE IF LS /\ RS /\ LH THEN "3pt: A"
        ELSE IF LS /\ RS /\ RH THEN "3pt: B"
        ELSE IF LH /\ RH /\ LS THEN "3pt: C"
        ELSE IF LH /\ RH /\ RS THEN "3pt: D"
        ELSE IF LS /\ RH THEN "2pt: A"
        ELSE IF LH /\ RS THEN "2pt: B"
        ELSE "Unavailable"
TorsoComputing == pc = "exit" /\ cur.cls = "MasseTorsoDB"

\* C25: the tier of the result the torso pass computes for a frame is the
\* first that qualifies in the order four-point, three-point A, B, C, D,
\* two-point A, B; a frame for which none qualifies gets no result, and no
\* row.
C25_TierIsFirstQualifying ==
    /\ TorsoComputing =>
          \A p \in PoseIds(work) :
              /\ FirstTier(work, p) = "Unavailable" => ~\E e \in batch : e.poseId = p
              /\ FirstTier(work, p) # "Unavailable" =>
                    /\ \E e \in batch : e.poseId = p
                    /\ \A e \in batch : e.poseId = p => e.method = FirstTier(work, p)
    /\ Closed("MasseTorsoDB") =>
          \A p \in PoseIds(disk) :
              FirstTier(disk, p) = "Unavailable" =>
                  \A t \in {"MasseTorsoDir", "MasseTorsoVec"} :
                      ~\E r \in disk.tab[t].rows : r.poseId = p
C25_Witness ==
    /\ TorsoComputing
    /\ \E e \in batch : e.method = "3pt: D"

\* ======================================================================
\* Claims checked under SpecOpen (validation when a store is opened)
\* ======================================================================
\* what is wrong with a declared table of the store, if anything
ColumnsDiffer(store, t) ==
    store.tab[t].exists /\ ~ColumnTypesIsNone(t) /\ ~store.tab[t].cols
RowsDiffer(store, t) ==
    /\ store.tab[t].exists /\ ~ColumnTypesIsNone(t)
    /\ \E r \in store.tab[t].rows :
          \/ t = "ThighFlexion" /\ (r.angleRad = NULL \/ r.dotBody = NULL \/ r.dotSpine = NULL)
          \/ t = "CrusFlexion" /\ r.angleRad = NULL
FindingAt(store, t) ==
    IF ~store.tab[t].exists THEN "missing"
    ELSE IF ColumnsDiffer(store, t) THEN "columns"
    ELSE IF RowsDiffer(store, t) THEN "rows"
    ELSE "none"
\* the finding of the first declared table that has one
FirstFinding(store, cls) ==
    LET defs == Table_Def(cls)
        found == {i \in 1..Len(defs) : FindingAt(store, defs[i]) # "none"}
    IN  IF found = {} THEN "none"
        ELSE FindingAt(store, defs[CHOOSE i \in found : \A j \in found : i <= j])
\* the store was just opened with reset = false (and the open raised, or not)
OpenRaised(cls) == pc = "idle" /\ last.cls = cls /\ last.how = "raised"
OpenPassed(cls) == pc = "body" /\ cur.cls = cls /\ ~cur.reset

\* C26: opening an existing store with reset=false goes by the first finding
\* in the order of the declared tables (per table: missing, then its columns,
\* then its rows, every row scanned): it raises ColumnMismatchError when that
\* is a column set that differs, RowTypeMismatchError when it is a row with a
\* value of another type, repairs when it is a missing table, and opens the
\* store as it is when there is none.  A raised mismatch leaves the tables and
\* rows unchanged.
C26_OpenRaisesTheFirstFinding ==
    \A cls \in OpenClasses :
        /\ OpenRaised(cls) =>
              /\ disk = pre
              /\ last.exc = "VCFColumnMismatch" <=> FirstFinding(pre, cls) = "columns"
              /\ last.exc = "VCFInvalidRow" <=> FirstFinding(pre, cls) = "rows"
        /\ OpenPassed(cls) =>
              /\ FirstFinding(pre, cls) \in {"missing", "none"}
              /\ cur.how = "repair" <=> FirstFinding(pre, cls) = "missing"
C26_Witness ==
    /\ OpenRaised("PoseDB")
    /\ last.exc = "VCFColumnMismatch"
    /\ ~pre.tab["PoseRect"].exists
\* C26 as stated: a mismatch is raised exactly when some declared table has it
C26_AsStated ==
    \A cls \in OpenClasses :
        (OpenRaised(cls) \/ OpenPassed(cls)) =>
            /\ (OpenRaised(cls) /\ last.exc = "VCFColumnMismatch")
                  <=> \E t \in DeclaredTables(cls) : ColumnsDiffer(pre, t)
            /\ (OpenRaised(cls) /\ last.exc = "VCFInvalidRow")
                  <=> \E t \in DeclaredTables(cls) : RowsDiffer(pre, t)
            /\ OpenRaised(cls) => disk = pre

\* ======================================================================
\* Claims checked under SpecScore (the torso pass after the reliability pass)
\* ======================================================================
\* a reliability pass has run and was closed
ReliabilityHasRun == done \cap RelClasses # {}
\* the frames the torso pass computes a direction for
TorsoDirected(store) ==
    {p \in PoseIds(store) :
        /\ Cardinality({r \in store.tab["Landmark"].rows : r.poseId = p}) = 33
        /\ TorsoDirOf(store, p).method # "invalid"}

Registered == pc = "body" /\ conv.at = "registered"
Unchanged ==
    \E r \in conv.before :
        /\ r.path = <<"posix", conv.file.path>>
        /\ r.size = conv.file.size /\ r.timestamp = conv.file.timestamp
Moved == ~Unchanged /\ \E r \in conv.before : r.hash = conv.file.hash

\* C30: register_imagefile keeps at most one File row per path and one per
\* content hash and never fails on a uniqueness constraint: an unchanged file
\* or a moved file returns (False, existing id) without inserting, and a file
\* whose content changed at a registered path is registered without error.
C30_RegistrationNeverFailsOnUniqueness ==
    /\ \A a, b \in work.tab["File"].rows : (a.path = b.path \/ a.hash = b.hash) => a = b
    /\ exc # "IntegrityError"
    /\ (Registered /\ (Unchanged \/ Moved)) =>
          /\ ~conv.created
          /\ \E r \in conv.before : r.id = conv.id
          /\ Cardinality(work.tab["File"].rows) = Cardinality(conv.before)

\* ======================================================================
\* Claims checked under SpecOrch (the orchestrator)
\* ======================================================================
IsPrefix(q, full) == Len(q) <= Len(full) /\ q = SubSeq(full, 1, Len(q))

Failed(i) == i \in 1..Len(orch.results) /\ ~orch.results[i]

\* C9: when a stage fails (it raises, or the ingestion stage reports
\* failure), no later stage is started and the exit code is non-zero; when
\* every stage succeeds the exit code is 0.
C9_FailureStopsWithNonZeroCode ==
    /\ \A i \in 1..Len(orch.results) :
          Failed(i) => Len(orch.started) = i /\ orch.code = "1"
    /\ (Len(orch.results) = Len(build_modules) /\ \A i \in 1..Len(orch.results) : orch.results[i])
          => orch.code = "0"
    /\ orch.code = "0" => \A i \in 1..Len(orch.results) : orch.results[i]
    /\ (Len(orch.results) >= 1 /\ IngestRefused(orch.args)) => Failed(1)
C9_Witness ==
    /\ IngestRefused(orch.args)
    /\ Failed(1)
    /\ orch.code = "1"
    /\ Len(orch.started) = 1
=============================================================================
